---------------------------- MODULE Spec2Model ----------------------------
(***************************************************************************)
(* Model of the BuriBuri_Trading decision pipeline:                        *)
(*   risk_guardrails.apply_risk_guardrails                                 *)
(*   decision_engine.determine_market_posture                              *)
(*   decision_engine.run_decision_engine and the modules it calls          *)
(*                                                                         *)
(* Python values are represented as follows.                               *)
(*   dict            a function whose DOMAIN is the set of keys present    *)
(*   list            a sequence                                            *)
(*   None            the string None (no input string equals it)           *)
(*   money           an integer number of thousands of dollars             *)
(*   a score         an integer number of hundredths (vitals 61.25 = 6125) *)
(*   an exposure     an integer number of 1/10000 (0.70 = 7000)            *)
(***************************************************************************)
EXTENDS Integers, Sequences, FiniteSets, TLC

VARIABLES
    pc,                  \* position of the call being modelled
    proposed_decisions,  \* apply_risk_guardrails: argument (enriched_decisions)
    risk_context,        \* apply_risk_guardrails: argument
    guardrail_results,   \* apply_risk_guardrails: return value
    volatility_state,    \* determine_market_posture: argument (vol_state)
    confidence_score,    \* determine_market_posture: argument
    vitals_summary,      \* determine_market_posture: argument (vitals_counts)
    posture_report,      \* determine_market_posture: return value
    portfolio_state,     \* run_decision_engine: argument
    positions,           \* run_decision_engine: argument
    sector_heatmap,      \* run_decision_engine: argument
    candidates,          \* run_decision_engine: argument
    market_context,      \* run_decision_engine: argument
    atr_res,             \* run_decision_engine: local
    baseline,            \* run_decision_engine: local
    news_res,            \* run_decision_engine: local
    analyzed_positions,  \* run_decision_engine: local
    lock_in_report,      \* run_decision_engine: local
    concentration_report, \* run_decision_engine: local
    conc_warning,        \* run_decision_engine: local
    active_candidates,   \* run_decision_engine: local
    opportunity_report,  \* run_decision_engine: local
    chain_actions,       \* run_decision_engine: action of each position at line 378
    decisions,           \* run_decision_engine: local
    report,              \* run_decision_engine: return value
    raised,              \* run_decision_engine: the exception that ended the call
    earlier_reports      \* caller: the reports of earlier calls with these arguments

engine_inputs == <<portfolio_state, positions, sector_heatmap, candidates, market_context>>

engine_locals == <<atr_res, baseline, news_res, analyzed_positions,
                   lock_in_report, concentration_report, conc_warning,
                   active_candidates, opportunity_report, chain_actions,
                   decisions, report, raised>>

vars == <<pc, proposed_decisions, risk_context, guardrail_results,
          volatility_state, confidence_score, vitals_summary, posture_report,
          engine_inputs, engine_locals, earlier_reports>>

None == "<None>"

\* {}
EmptyDict == [x \in {} |-> None]

\* dict.get(key, default)
Get(d, k, default) == IF k \in DOMAIN d THEN d[k] ELSE default

\* {**d, k: v}  /  d.copy(); d[k] = v
Put(d, k, v) == [x \in (DOMAIN d) \cup {k} |-> IF x = k THEN v ELSE d[x]]

\* All lists over S of length at most n
SeqsUpTo(S, n) == UNION {[1..k -> S] : k \in 0..n}

\* All dicts with keys among the (key, value set) pairs of fields, every key optional
RECURSIVE DictsOver(_)
DictsOver(fields) ==
    IF fields = {} THEN {EmptyDict}
    ELSE LET f == CHOOSE x \in fields : TRUE
             rest == DictsOver(fields \ {f})
         IN  rest \cup {Put(d, f[1], v) : d \in rest, v \in f[2]}

\* A Python value whose type is not fixed by the signature (risk_context may be
\* None, a dict or anything else).  py names the type.
PyNone == [py |-> "None"]
PyDict(d) == [py |-> "dict", dict |-> d]
PyStr(s) == [py |-> "str", str |-> s]
PyList(s) == [py |-> "list", list |-> s]

\* isinstance(x, dict)
IsDict(x) == x.py = "dict"

\* bool(x)
Truthy(x) ==
    CASE x.py = "None" -> FALSE
      [] x.py = "dict" -> DOMAIN x.dict # {}
      [] x.py = "str"  -> x.str # ""
      [] x.py = "list" -> Len(x.list) > 0

(***************************************************************************)
(* risk_guardrails.py                                                      *)
(***************************************************************************)

DefaultMinimumReserve == 50

increasing_actions ==
    {"ALLOCATE", "ALLOCATE_HIGH", "ALLOCATE_AGGRESSIVE",
     "SCALE_UP", "DOUBLE_DOWN", "ADD_POSITION"}

aggressive_allocs == {"ALLOCATE_HIGH", "ALLOCATE_AGGRESSIVE", "SCALE_UP"}

capital_actions ==
    {"ALLOCATE", "ALLOCATE_HIGH", "ALLOCATE_AGGRESSIVE",
     "ALLOCATE_CAPPED", "ALLOCATE_CAUTIOUS",
     "SCALE_UP", "ADD_POSITION", "DOUBLE_DOWN"}

aggressive_actions == {"ALLOCATE_AGGRESSIVE", "SCALE_UP", "DOUBLE_DOWN"}

ReasonConcentration == "Sector concentration breach"
ReasonCash == "Insufficient cash reserve"
ReasonVolatility == "Aggressive action blocked during expanding volatility"
ReasonNoContext == "Safety check failed: missing risk context"

\* Variant of BlockReason: a rule sets block_reason only while it is still None
\* (the first applicable rule wins).
BlockReasonFirstWins(decision, ctx) ==
    LET concentration   == Get(ctx, "concentration", EmptyDict)
        is_concentrated == Get(concentration, "is_concentrated", FALSE)
        dominant_sector == Get(concentration, "dominant_sector", "UNKNOWN")
        severity        == Get(concentration, "severity", "NONE")
        cash_available  == Get(ctx, "cash_available", 0)
        minimum_reserve == Get(ctx, "minimum_reserve", DefaultMinimumReserve)
        vol             == Get(ctx, "volatility_state", "STABLE")
        action_type     == Get(decision, "action", "UNKNOWN")
        sector          == Get(decision, "sector", "UNKNOWN")
    IN  IF is_concentrated /\ sector = dominant_sector
           /\ action_type \in increasing_actions
        THEN ReasonConcentration
        ELSE IF severity = "APPROACHING" /\ sector = dominant_sector
                /\ action_type \in aggressive_allocs
        THEN ReasonConcentration
        ELSE IF cash_available < minimum_reserve /\ action_type \in capital_actions
        THEN ReasonCash
        ELSE IF vol = "EXPANDING" /\ action_type \in aggressive_actions
        THEN ReasonVolatility
        ELSE None

\* The body of the for loop for one decision: block_reason starts as None and
\* each rule that applies overwrites it.
BlockReason(decision, ctx) ==
    LET concentration   == Get(ctx, "concentration", EmptyDict)
        is_concentrated == Get(concentration, "is_concentrated", FALSE)
        dominant_sector == Get(concentration, "dominant_sector", "UNKNOWN")
        severity        == Get(concentration, "severity", "NONE")
        cash_available  == Get(ctx, "cash_available", 0)
        minimum_reserve == Get(ctx, "minimum_reserve", DefaultMinimumReserve)
        vol             == Get(ctx, "volatility_state", "STABLE")
        action_type     == Get(decision, "action", "UNKNOWN")
        sector          == Get(decision, "sector", "UNKNOWN")
        r0 == None
        r1 == IF is_concentrated /\ sector = dominant_sector
                 /\ action_type \in increasing_actions
              THEN ReasonConcentration ELSE r0
        r2 == IF severity = "APPROACHING" /\ sector = dominant_sector
                 /\ action_type \in aggressive_allocs
              THEN ReasonConcentration ELSE r1
        r3 == IF cash_available < minimum_reserve
                 /\ action_type \in capital_actions
              THEN ReasonCash ELSE r2
        r4 == IF vol = "EXPANDING" /\ action_type \in aggressive_actions
              THEN ReasonVolatility ELSE r3
    IN  r4

\* Variant of GuardLoop: the else of the final if is missing, so a blocked
\* decision is appended to allowed as well.
RECURSIVE GuardLoopNoElse(_, _, _, _, _)
GuardLoopNoElse(ds, ctx, i, allowed, blocked) ==
    IF i > Len(ds) THEN [allowed_actions |-> allowed, blocked_actions |-> blocked]
    ELSE LET block_reason == BlockReason(ds[i], ctx)
         IN  IF block_reason # None
             THEN GuardLoopNoElse(ds, ctx, i + 1, Append(allowed, ds[i]),
                            Append(blocked, Put(ds[i], "safety_reason", block_reason)))
             ELSE GuardLoopNoElse(ds, ctx, i + 1, Append(allowed, ds[i]), blocked)

\* The for loop: allowed gets the decision itself, blocked a copy with
\* safety_reason set.
RECURSIVE GuardLoop(_, _, _, _, _)
\* Variant of GuardLoop that puts each blocked decision at the front of the
\* blocked list.
RECURSIVE GuardLoopBlockedFirst(_, _, _, _, _)
GuardLoopBlockedFirst(ds, ctx, i, allowed, blocked) ==
    IF i > Len(ds) THEN [allowed_actions |-> allowed, blocked_actions |-> blocked]
    ELSE LET block_reason == BlockReason(ds[i], ctx)
         IN  IF block_reason # None
             THEN GuardLoopBlockedFirst(ds, ctx, i + 1, allowed,
                            <<Put(ds[i], "safety_reason", block_reason)>> \o blocked)
             ELSE GuardLoopBlockedFirst(ds, ctx, i + 1, Append(allowed, ds[i]), blocked)

GuardLoop(ds, ctx, i, allowed, blocked) ==
    IF i > Len(ds) THEN [allowed_actions |-> allowed, blocked_actions |-> blocked]
    ELSE LET block_reason == BlockReason(ds[i], ctx)
         IN  IF block_reason # None
             THEN GuardLoop(ds, ctx, i + 1, allowed,
                            Append(blocked, Put(ds[i], "safety_reason", block_reason)))
             ELSE GuardLoop(ds, ctx, i + 1, Append(allowed, ds[i]), blocked)

\* Variant of ApplyRiskGuardrails that fails open: without a usable risk
\* context every decision is allowed.
ApplyRiskGuardrailsFailOpen(ds, rc) ==
    IF Len(ds) = 0
    THEN [allowed_actions |-> <<>>, blocked_actions |-> <<>>]
    ELSE IF ~Truthy(rc) \/ ~IsDict(rc)
    THEN [allowed_actions |-> ds, blocked_actions |-> <<>>]
    ELSE GuardLoop(ds, rc.dict, 1, <<>>, <<>>)

\* apply_risk_guardrails(proposed_decisions, risk_context); proposed_decisions
\* is a list, risk_context any Python value.
ApplyRiskGuardrails(ds, rc) ==
    IF Len(ds) = 0
    THEN [allowed_actions |-> <<>>, blocked_actions |-> <<>>]
    ELSE IF ~Truthy(rc) \/ ~IsDict(rc)
    THEN [allowed_actions |-> <<>>,
          blocked_actions |->
              [k \in 1..Len(ds) |-> Put(ds[k], "safety_reason", ReasonNoContext)]]
    ELSE GuardLoop(ds, rc.dict, 1, <<>>, <<>>)

\* Variant of DecisionAfterBlocking for a loop that sets safety_reason on
\* the decision itself.
DecisionAfterBlockingInPlace(decision, block_reason) ==
    Put(decision, "safety_reason", block_reason)

\* The caller's decision after the loop blocked it: line 134 copies it and
\* line 135 writes safety_reason to the copy
DecisionAfterBlocking(decision, block_reason) == decision

\* The caller's list after apply_risk_guardrails: the early returns build
\* new dicts ({**d, ...}), the loop only writes to decisions it blocks
DecisionsAfterGuardrails(ds, rc) ==
    IF Len(ds) = 0 \/ ~Truthy(rc) \/ ~IsDict(rc) THEN ds
    ELSE [i \in 1..Len(ds) |->
             IF BlockReason(ds[i], rc.dict) # None
             THEN DecisionAfterBlocking(ds[i], BlockReason(ds[i], rc.dict))
             ELSE ds[i]]

(***************************************************************************)
(* decision_engine.determine_market_posture                                *)
(***************************************************************************)

ConfDefensiveBelow == 50
ConfAggressiveAbove == 70
ConfOpportunityAbove == 65

\* Part 2 of determine_market_posture (external market conditions), reached
\* when the portfolio is not unhealthy.  reasons is modelled by the tags of
\* the strings appended, in order.
ExternalMarketPosture(vol, conf) ==
    IF vol = "EXPANDING"
    THEN IF conf < ConfDefensiveBelow
         THEN [market_posture |-> "DEFENSIVE", risk_level |-> "HIGH",
               confidence |-> conf,
               reasons |-> <<"Volatility is", "High uncertainty">>]
         ELSE [market_posture |-> "NEUTRAL", risk_level |-> "HIGH",
               confidence |-> conf,
               reasons |-> <<"Volatility is", "High volatility but confidence holds">>]
    ELSE IF vol = "CONTRACTING"
    THEN IF conf > ConfAggressiveAbove
         THEN [market_posture |-> "AGGRESSIVE", risk_level |-> "LOW",
               confidence |-> conf,
               reasons |-> <<"Volatility is", "Volatility cooling + High confidence">>]
         ELSE [market_posture |-> "NEUTRAL", risk_level |-> "LOW",
               confidence |-> conf,
               reasons |-> <<"Volatility is", "Volatility cooling but confidence insufficient">>]
    ELSE IF vol = "STABLE"
    THEN IF conf > ConfOpportunityAbove
         THEN [market_posture |-> "OPPORTUNITY", risk_level |-> "MEDIUM",
               confidence |-> conf,
               reasons |-> <<"Volatility is", "Stable market with strong signals">>]
         ELSE [market_posture |-> "NEUTRAL", risk_level |-> "MEDIUM",
               confidence |-> conf,
               reasons |-> <<"Volatility is", "Stable market, waiting">>]
    ELSE [market_posture |-> "NEUTRAL", risk_level |-> "MEDIUM",
          confidence |-> conf,
          reasons |-> <<"Volatility is", "Market state unknown">>]

\* Variant of DetermineMarketPosture whose health test is >= instead of >.
DetermineMarketPostureGeq(vol, conf, summary) ==
    LET healthy_count   == Get(summary, "healthy", 0)
        unhealthy_count == Get(summary, "unhealthy", 0)
    IN  IF unhealthy_count >= healthy_count
        THEN [market_posture |-> "RISK_OFF", risk_level |-> "HIGH",
              confidence |-> conf, reasons |-> <<"Portfolio unhealthy">>]
        ELSE ExternalMarketPosture(vol, conf)

\* determine_market_posture(volatility_state, confidence_score, news_score,
\* vitals_summary); news_score is not read.
DetermineMarketPosture(vol, conf, summary) ==
    LET healthy_count   == Get(summary, "healthy", 0)
        unhealthy_count == Get(summary, "unhealthy", 0)
    IN  IF unhealthy_count > healthy_count
        THEN [market_posture |-> "RISK_OFF", risk_level |-> "HIGH",
              confidence |-> conf, reasons |-> <<"Portfolio unhealthy">>]
        ELSE ExternalMarketPosture(vol, conf)

(***************************************************************************)
(* Numbers.  Python computes in floats; the model computes the same        *)
(* quantities exactly in integers and rounds half to even where the code   *)
(* calls round().                                                          *)
(***************************************************************************)

Abs(x) == IF x < 0 THEN -x ELSE x
Min(a, b) == IF a < b THEN a ELSE b
Max(a, b) == IF a > b THEN a ELSE b

\* round(n / d) for n >= 0, d > 0, half to even
RoundDiv(n, d) ==
    LET q == n \div d
        r == n % d
    IN  IF 2 * r > d THEN q + 1
        ELSE IF 2 * r < d THEN q
        ELSE IF q % 2 = 0 THEN q ELSE q + 1

\* Long division: <<q, r>> with n * 10^k = q * d + r, q saturating at sat
\* (n >= 0, d > 0).  Keeps every intermediate below 10 * d.
RECURSIVE LongDiv(_, _, _, _)
LongDiv(n, d, k, sat) ==
    IF k = 0 THEN <<Min(n \div d, sat), n % d>>
    ELSE LET p == LongDiv(n, d, k - 1, sat)
         IN  <<Min(10 * p[1] + ((10 * p[2]) \div d), sat), (10 * p[2]) % d>>

(***************************************************************************)
(* vitals_monitor.compute_vitals                                           *)
(* Units: prices in dollars, atr in tenths of a dollar, capital_allocated  *)
(* in thousands of dollars, vitals_score in hundredths.                    *)
(***************************************************************************)

VitalsUnhealthyBelow == 4000
VitalsWeakBelow == 6000
StagnantDays == 20

\* Larger than any score can be moved back into [0, 100] by the time penalty
\* of the positions considered (days_held <= 1500).
Saturated == 40000

\* 100 * (10 * (0.5 * vol_adj_return + 0.3 * capital_efficiency)) as
\* <<q, r, d>> = q + r / d, for a price move of diff > 0 dollars:
\*   500000 * diff / (entry * atr10) + 3000000 * diff / (entry * capK)
\* with safe_atr = max(atr, 0.0001) and safe_capital = max(capital, 1.0).
ReturnTerms(diff, entry, atr10, capK) ==
    IF atr10 <= 0 \/ capK <= 0
    THEN <<Saturated, 0, 1>>
    ELSE LET n == diff * (capK + 6 * atr10)
             d == entry * atr10 * capK
             p == LongDiv(n, d, 5, Saturated)
         IN  <<Min(5 * p[1] + ((5 * p[2]) \div d), Saturated), (5 * p[2]) % d, d>>

\* round(max(0.0, min(100.0, 50.0 + raw_efficiency * 10.0)), 2) in hundredths
EfficiencyScore(entry, current, atr10, days, capK) ==
    LET diff == current - entry
        t    == IF diff = 0 THEN <<0, 0, 1>> ELSE ReturnTerms(Abs(diff), entry, atr10, capK)
        base == 5000 - 20 * days
        \* floor and fractional part (num / t[3]) of the unclamped score
        fl   == IF diff >= 0 THEN base + t[1]
                ELSE IF t[2] = 0 THEN base - t[1] ELSE base - t[1] - 1
        num  == IF diff >= 0 \/ t[2] = 0 THEN t[2] ELSE t[3] - t[2]
        rnd  == IF 2 * num > t[3] THEN fl + 1
                ELSE IF 2 * num < t[3] THEN fl
                ELSE IF fl % 2 = 0 THEN fl ELSE fl + 1
    IN  IF fl >= 10000 THEN 10000 ELSE IF fl < 0 THEN 0 ELSE rnd

\* Variant of ComputeVitals whose health thresholds are inclusive.
ComputeVitalsInclusive(position) ==
    LET r == [symbol |-> Get(position, "symbol", "UNKNOWN"),
              vitals_score |->
                  EfficiencyScore(Get(position, "entry_price", 0),
                                  Get(position, "current_price", 0),
                                  Get(position, "atr", 0), Get(position, "days_held", 0),
                                  Get(position, "capital_allocated", 0)),
              flags |-> <<>>]
    IN  IF Get(position, "entry_price", 0) <= 0
        THEN [symbol |-> r.symbol, vitals_score |-> 0, health |-> "UNHEALTHY",
              suggested_action |-> "REDUCE / EXIT (Data Error: Invalid Entry Price)",
              flags |-> <<"DATA_ERROR">>]
        ELSE IF r.vitals_score <= VitalsUnhealthyBelow
        THEN [symbol |-> r.symbol, vitals_score |-> r.vitals_score, health |-> "UNHEALTHY",
              suggested_action |-> "REDUCE / EXIT", flags |-> r.flags]
        ELSE IF r.vitals_score <= VitalsWeakBelow
        THEN [symbol |-> r.symbol, vitals_score |-> r.vitals_score, health |-> "WEAK",
              suggested_action |-> "HOLD / MONITOR", flags |-> r.flags]
        ELSE [symbol |-> r.symbol, vitals_score |-> r.vitals_score, health |-> "HEALTHY",
              suggested_action |-> "HOLD / SCALE", flags |-> r.flags]

\* Variant of ComputeVitals that scores a position without a valid entry
\* price as neutral.
ComputeVitalsNeutralOnError(position) ==
    IF Get(position, "entry_price", 0) <= 0
    THEN [symbol |-> Get(position, "symbol", "UNKNOWN"), vitals_score |-> 5000,
          health |-> "WEAK",
          suggested_action |-> "HOLD / MONITOR (Data Error: Invalid Entry Price)",
          flags |-> <<"DATA_ERROR">>]
    ELSE ComputeVitalsInclusive(position)

\* compute_vitals(position); the drivers breakdown is not modelled.
ComputeVitals(position) ==
    LET symbol            == Get(position, "symbol", "UNKNOWN")
        entry_price       == Get(position, "entry_price", 0)
        current_price     == Get(position, "current_price", 0)
        atr               == Get(position, "atr", 0)
        days_held         == Get(position, "days_held", 0)
        capital_allocated == Get(position, "capital_allocated", 0)
    IN  IF entry_price <= 0
        THEN [symbol |-> symbol, vitals_score |-> 0, health |-> "UNHEALTHY",
              suggested_action |-> "REDUCE / EXIT (Data Error: Invalid Entry Price)",
              flags |-> <<"DATA_ERROR">>]
        ELSE LET vitals_score == EfficiencyScore(entry_price, current_price, atr,
                                                 days_held, capital_allocated)
                 \* pnl_pct < 2.0  <=>  100 * (current - entry) < 2 * entry
                 stagnant == 100 * (current_price - entry_price) < 2 * entry_price
                             /\ days_held > StagnantDays
                 flags == IF stagnant THEN <<"STAGNANT">> ELSE <<>>
             IN  IF vitals_score < VitalsUnhealthyBelow
                 THEN [symbol |-> symbol, vitals_score |-> vitals_score,
                       health |-> "UNHEALTHY", suggested_action |-> "REDUCE / EXIT",
                       flags |-> flags]
                 ELSE IF vitals_score < VitalsWeakBelow
                 THEN [symbol |-> symbol, vitals_score |-> vitals_score,
                       health |-> "WEAK", suggested_action |-> "HOLD / MONITOR",
                       flags |-> flags]
                 ELSE [symbol |-> symbol, vitals_score |-> vitals_score,
                       health |-> "HEALTHY", suggested_action |-> "HOLD / SCALE",
                       flags |-> flags]

(***************************************************************************)
(* Market signals: news_scorer, volatility_metrics, sector_confidence      *)
(***************************************************************************)

POSITIVE_KEYWORDS ==
    {"growth", "demand", "beats", "rally", "soar", "surge", "upgrade", "strong",
     "record", "bullish", "profit", "innovation", "breakthrough", "high", "jump"}

NEGATIVE_KEYWORDS ==
    {"slowdown", "risk", "regulation", "crash", "slump", "downgrade", "weak", "miss",
     "volatility", "concern", "inflation", "drop", "bearish", "loss", "decline", "warns"}

STARTING_SCORE == 50
POINT_WEIGHT == 5

\* A headline is the set of keywords that occur in its lower-cased text.
RECURSIVE KeywordPoints(_, _)
KeywordPoints(headlines, i) ==
    IF i > Len(headlines) THEN 0
    ELSE POINT_WEIGHT * Cardinality(headlines[i] \cap POSITIVE_KEYWORDS)
         - POINT_WEIGHT * Cardinality(headlines[i] \cap NEGATIVE_KEYWORDS)
         + KeywordPoints(headlines, i + 1)

\* score_tech_news(headlines)
ScoreTechNews(headlines) ==
    IF Len(headlines) = 0
    THEN [news_score |-> 50, headline_count |-> 0]
    ELSE [news_score |-> Max(0, Min(100, STARTING_SCORE + KeywordPoints(headlines, 1))),
          headline_count |-> Len(headlines)]

AtrPeriod == 14

\* sorted(candles, key=timestamp): stable insertion by timestamp; a candle
\* without a timestamp sorts first (key "").  Timestamps are integers >= 1.
RECURSIVE SortCandles(_)
SortCandles(candles) ==
    IF Len(candles) = 0 THEN <<>>
    ELSE LET rest == SortCandles(SubSeq(candles, 1, Len(candles) - 1))
             c    == candles[Len(candles)]
             key(x) == Get(x, "timestamp", 0)
             n    == Cardinality({j \in 1..Len(rest) : key(rest[j]) <= key(c)})
         IN  SubSeq(rest, 1, n) \o <<c>> \o SubSeq(rest, n + 1, Len(rest))

RECURSIVE SumTrueRange(_, _, _)
SumTrueRange(sorted, from, to) ==
    IF from > to THEN 0
    ELSE LET current_h == Get(sorted[from], "high", 0)
             current_l == Get(sorted[from], "low", 0)
             prev_c    == Get(sorted[from - 1], "close", 0)
             tr == Max(current_h - current_l,
                       Max(Abs(current_h - prev_c), Abs(current_l - prev_c)))
         IN  tr + SumTrueRange(sorted, from + 1, to)

\* compute_atr(candles): the Optional[float] atr is <<>> for None and <<a>> for
\* an atr of a ten-thousandths of a dollar
ComputeAtr(candles) ==
    IF Len(candles) = 0 \/ Len(candles) < AtrPeriod + 1
    THEN [atr |-> <<>>]
    ELSE LET sorted == SortCandles(candles)
             n      == Len(sorted)
         IN  [atr |-> <<RoundDiv(10000 * SumTrueRange(sorted, n - AtrPeriod + 1, n),
                                 AtrPeriod)>>]

VolatilityThresholdPct == 10

\* classify_volatility_state(current_atr, baseline_atr)
ClassifyVolatilityState(current_atr, baseline_atr) ==
    IF baseline_atr <= 0 THEN [volatility_state |-> "STABLE"]
    ELSE IF 100 * (current_atr - baseline_atr) > VolatilityThresholdPct * baseline_atr
    THEN [volatility_state |-> "EXPANDING"]
    ELSE IF 100 * (current_atr - baseline_atr) < -VolatilityThresholdPct * baseline_atr
    THEN [volatility_state |-> "CONTRACTING"]
    ELSE [volatility_state |-> "STABLE"]

\* compute_sector_confidence without an adjustment for a state it does not
\* know
ComputeSectorConfidenceUnknownNeutral(vol, news_score) ==
    LET vol_adj == CASE vol = "EXPANDING" -> -20
                     [] vol = "CONTRACTING" -> 10
                     [] OTHER -> 0
    IN  [sector_confidence |-> Max(0, Min(100, news_score + vol_adj))]

\* compute_sector_confidence(volatility_state, news_score)
ComputeSectorConfidence(vol, news_score) ==
    LET vol_adj == CASE vol = "EXPANDING" -> -20
                     [] vol = "CONTRACTING" -> 10
                     [] vol = "STABLE" -> 0
                     [] OTHER -> -10
    IN  [sector_confidence |-> Max(0, Min(100, news_score + vol_adj))]

(***************************************************************************)
(* capital_lock_in.detect_capital_lock_in                                  *)
(* Money is in thousands of dollars; the code's floor of 1.0 dollar for    *)
(* total_capital is a thousandth of a unit.  pressure_score is a decimal   *)
(* [whole, hundredths].                                                    *)
(***************************************************************************)

DeadVitalsBelow == 5000
ColdHeatBelow == 40
HotHeatFrom == 70
NeutralHeat == 50
PressureAlertAbove == 50

\* Variant of DeadPositions whose two thresholds are inclusive.
RECURSIVE DeadPositionsInclusive(_, _, _)
DeadPositionsInclusive(ps, heatmap, i) ==
    IF i > Len(ps) THEN <<>>
    ELSE LET pos         == ps[i]
             vitals      == Get(pos, "vitals_score", 0)
             allocated   == Get(pos, "capital_allocated", 0)
             sector      == Get(pos, "sector", "UNKNOWN")
             sector_heat == Get(heatmap, sector, NeutralHeat)
             rest        == DeadPositionsInclusive(ps, heatmap, i + 1)
         IN  IF vitals <= DeadVitalsBelow /\ sector_heat <= ColdHeatBelow
             THEN <<[symbol |-> Get(pos, "symbol", "UNKNOWN"), sector |-> sector,
                     vitals_score |-> vitals, capital_allocated |-> allocated]>> \o rest
             ELSE rest

RECURSIVE DeadPositions(_, _, _)
DeadPositions(ps, heatmap, i) ==
    IF i > Len(ps) THEN <<>>
    ELSE LET pos         == ps[i]
             vitals      == Get(pos, "vitals_score", 0)
             allocated   == Get(pos, "capital_allocated", 0)
             sector      == Get(pos, "sector", "UNKNOWN")
             sector_heat == Get(heatmap, sector, NeutralHeat)
             rest        == DeadPositions(ps, heatmap, i + 1)
         IN  IF vitals < DeadVitalsBelow /\ sector_heat < ColdHeatBelow
             THEN <<[symbol |-> Get(pos, "symbol", "UNKNOWN"), sector |-> sector,
                     vitals_score |-> vitals, capital_allocated |-> allocated]>> \o rest
             ELSE rest

RECURSIVE SumCapital(_, _)
SumCapital(ps, i) ==
    IF i > Len(ps) THEN 0 ELSE ps[i].capital_allocated + SumCapital(ps, i + 1)

\* round(max(0.0, lock_in_ratio * 100 + len(hot_sectors) * 20 - cash_ratio * 50), 2)
PressureScore(portfolio, dead_capital, hot_count) ==
    LET cash == Get(portfolio, "cash", 0)
    IN  IF "total_capital" \in DOMAIN portfolio /\ portfolio["total_capital"] >= 1
        THEN LET total == portfolio["total_capital"]
                 num   == 100 * dead_capital + 20 * hot_count * total - 50 * cash
             IN  IF num <= 0 THEN [whole |-> 0, hundredths |-> 0]
                 ELSE LET h == RoundDiv(100 * (num % total), total)
                      IN  IF h = 100 THEN [whole |-> (num \div total) + 1, hundredths |-> 0]
                          ELSE [whole |-> num \div total, hundredths |-> h]
        ELSE \* safe_total_cap = 1.0 dollar
             [whole |-> Max(0, 100000 * dead_capital + 20 * hot_count - 50000 * cash),
              hundredths |-> 0]

\* detect_capital_lock_in(portfolio, positions, sector_heatmap); hot_sectors
\* is only tested for membership and length and is kept as a set; the
\* rounded lock_in_ratio and the summary text are not modelled.
DetectCapitalLockIn(portfolio, ps, heatmap) ==
    LET dead_positions == DeadPositions(ps, heatmap, 1)
        dead_capital   == SumCapital(dead_positions, 1)
        hot_sectors    == {k \in DOMAIN heatmap : heatmap[k] >= HotHeatFrom}
        pressure_score == PressureScore(portfolio, dead_capital, Cardinality(hot_sectors))
    IN  [dead_capital |-> dead_capital,
         dead_positions |-> dead_positions,
         hot_sectors |-> hot_sectors,
         pressure_score |-> pressure_score,
         reallocation_alert |-> (pressure_score.whole > PressureAlertAbove
                                 \/ (pressure_score.whole = PressureAlertAbove
                                     /\ pressure_score.hundredths > 0))]

(***************************************************************************)
(* concentration_guard: exposures are in ten-thousandths (round(x, 4)).    *)
(***************************************************************************)

SoftLimit == 7000
WarningLimit == 6000
UNKNOWN_SECTOR == "UNKNOWN"

\* str.strip().upper() on the sector labels that occur
StripUpper(s) ==
    CASE s = "tech" -> "TECH"
      [] s = " Tech " -> "TECH"
      [] s = "energy" -> "ENERGY"
      [] s = " " -> ""
      [] OTHER -> s

\* Python's string order on the normalised sector labels
SectorRank(s) ==
    CASE s = "BIOTECH" -> 1
      [] s = "ENERGY" -> 2
      [] s = "FINANCE" -> 3
      [] s = "TECH" -> 4
      [] OTHER -> 5

ExposureSector(position) ==
    LET sector == StripUpper(Get(position, "sector", ""))
    IN  IF sector = "" THEN UNKNOWN_SECTOR ELSE sector

RECURSIVE SectorCapital(_, _, _)
SectorCapital(ps, sector, i) ==
    IF i > Len(ps) THEN 0
    ELSE LET capital == Get(ps[i], "capital_allocated", 0)
         IN  (IF capital > 0 /\ ExposureSector(ps[i]) = sector THEN capital ELSE 0)
             + SectorCapital(ps, sector, i + 1)

\* compute_sector_exposure with every fraction rounded up to 4 decimals
ComputeSectorExposureRoundedUp(ps, total_capital) ==
    IF total_capital[1] <= 0 \/ Len(ps) = 0 THEN EmptyDict
    ELSE LET sectors == {ExposureSector(ps[i]) :
                            i \in {j \in 1..Len(ps) :
                                      Get(ps[j], "capital_allocated", 0) > 0}}
         IN  [sec \in sectors |->
                 (10000 * total_capital[2] * SectorCapital(ps, sec, 1)
                    + total_capital[1] - 1) \div total_capital[1]]

\* compute_sector_exposure(ps, total_capital); total_capital is
\* <<n, d>>, n / d thousands of dollars.
ComputeSectorExposure(ps, total_capital) ==
    IF total_capital[1] <= 0 \/ Len(ps) = 0 THEN EmptyDict
    ELSE LET sectors == {ExposureSector(ps[i]) :
                            i \in {j \in 1..Len(ps) :
                                      Get(ps[j], "capital_allocated", 0) > 0}}
         IN  [sec \in sectors |->
                 RoundDiv(10000 * total_capital[2] * SectorCapital(ps, sec, 1),
                          total_capital[1])]

\* evaluate_concentration_risk with the two limits compared by >=
EvaluateConcentrationRiskInclusive(exposure_map) ==
    IF DOMAIN exposure_map = {}
    THEN [is_concentrated |-> FALSE, dominant_sector |-> None, exposure |-> 0,
          threshold |-> SoftLimit, severity |-> "OK"]
    ELSE LET dominant_sector ==
                 CHOOSE k \in DOMAIN exposure_map : \A j \in DOMAIN exposure_map :
                     \/ exposure_map[j] < exposure_map[k]
                     \/ exposure_map[j] = exposure_map[k] /\ SectorRank(j) <= SectorRank(k)
             max_exposure == exposure_map[dominant_sector]
         IN  [is_concentrated |-> max_exposure >= SoftLimit,
              dominant_sector |-> dominant_sector,
              exposure |-> max_exposure,
              threshold |-> SoftLimit,
              severity |-> IF max_exposure >= SoftLimit THEN "SOFT_BREACH"
                           ELSE IF max_exposure >= WarningLimit THEN "APPROACHING"
                           ELSE "OK"]

\* evaluate_concentration_risk with ties going to the least sector name
EvaluateConcentrationRiskLeastName(exposure_map) ==
    IF DOMAIN exposure_map = {}
    THEN [is_concentrated |-> FALSE, dominant_sector |-> None, exposure |-> 0,
          threshold |-> SoftLimit, severity |-> "OK"]
    ELSE LET dominant_sector ==
                 CHOOSE k \in DOMAIN exposure_map : \A j \in DOMAIN exposure_map :
                     \/ exposure_map[j] < exposure_map[k]
                     \/ exposure_map[j] = exposure_map[k] /\ SectorRank(j) >= SectorRank(k)
             max_exposure == exposure_map[dominant_sector]
         IN  [is_concentrated |-> max_exposure > SoftLimit,
              dominant_sector |-> dominant_sector,
              exposure |-> max_exposure,
              threshold |-> SoftLimit,
              severity |-> IF max_exposure > SoftLimit THEN "SOFT_BREACH"
                           ELSE IF max_exposure > WarningLimit THEN "APPROACHING"
                           ELSE "OK"]

\* evaluate_concentration_risk(exposure_map) with DEFAULT_THRESHOLDS
EvaluateConcentrationRisk(exposure_map) ==
    IF DOMAIN exposure_map = {}
    THEN [is_concentrated |-> FALSE, dominant_sector |-> None, exposure |-> 0,
          threshold |-> SoftLimit, severity |-> "OK"]
    ELSE LET dominant_sector ==
                 CHOOSE k \in DOMAIN exposure_map : \A j \in DOMAIN exposure_map :
                     \/ exposure_map[j] < exposure_map[k]
                     \/ exposure_map[j] = exposure_map[k] /\ SectorRank(j) <= SectorRank(k)
             max_exposure == exposure_map[dominant_sector]
         IN  [is_concentrated |-> max_exposure > SoftLimit,
              dominant_sector |-> dominant_sector,
              exposure |-> max_exposure,
              threshold |-> SoftLimit,
              severity |-> IF max_exposure > SoftLimit THEN "SOFT_BREACH"
                           ELSE IF max_exposure > WarningLimit THEN "APPROACHING"
                           ELSE "OK"]

\* analyze_portfolio_concentration(positions, total_capital)
AnalyzePortfolioConcentration(ps, total_capital) ==
    LET exposure_map == ComputeSectorExposure(ps, total_capital)
    IN  [exposure_map |-> exposure_map, warning |-> EvaluateConcentrationRisk(exposure_map)]

(***************************************************************************)
(* opportunity_logic.scan_for_opportunities: scores in hundredths.         *)
(***************************************************************************)

OpportunityThreshold == 1500

\* min(seq, key=...): the index of the first of the least keys
FirstMinIndex(keys) ==
    CHOOSE i \in 1..Len(keys) :
        /\ \A j \in 1..Len(keys) : keys[i] <= keys[j]
        /\ \A j \in 1..(i - 1) : keys[j] > keys[i]

\* max(seq, key=...): the index of the first of the greatest keys
FirstMaxIndex(keys) ==
    CHOOSE i \in 1..Len(keys) :
        /\ \A j \in 1..Len(keys) : keys[i] >= keys[j]
        /\ \A j \in 1..(i - 1) : keys[j] < keys[i]

\* scan_for_opportunities with the gap compared by >=
ScanForOpportunitiesInclusive(ps, cs) ==
    LET vitals(x) == Get(x, "vitals_score", 0)
        eff(x)    == Get(x, "projected_efficiency", 0)
        has_p     == Len(ps) > 0
        has_c     == Len(cs) > 0
        weakest_position ==
            IF has_p THEN ps[FirstMinIndex([i \in 1..Len(ps) |-> vitals(ps[i])])] ELSE None
        min_vitals       == IF has_p THEN vitals(weakest_position) ELSE 99900
        top_candidate ==
            IF has_c THEN cs[FirstMaxIndex([i \in 1..Len(cs) |-> eff(cs[i])])] ELSE None
        max_external_score == IF has_c THEN eff(top_candidate) ELSE 0
        efficiency_gap   == max_external_score - min_vitals
        better == IF has_p /\ has_c THEN efficiency_gap >= OpportunityThreshold
                  ELSE (~has_p) /\ has_c
        confidence == IF has_p /\ has_c
                      THEN IF efficiency_gap >= OpportunityThreshold
                           THEN IF efficiency_gap >= OpportunityThreshold * 2
                                THEN "HIGH" ELSE "MEDIUM"
                           ELSE "LOW"
                      ELSE IF (~has_p) /\ has_c THEN "HIGH" ELSE "N/A"
    IN  [weakest_held_symbol |-> IF has_p THEN weakest_position.symbol ELSE "N/A",
         weakest_held_score |-> IF has_p THEN min_vitals ELSE 0,
         best_external_symbol |-> IF has_c THEN top_candidate.symbol ELSE "N/A",
         best_external_score |-> max_external_score,
         better_opportunity_exists |-> better,
         confidence |-> confidence]

\* scan_for_opportunities(positions, candidates); the rounded
\* efficiency_gap, the summary text and best_held_efficiency_context are
\* not modelled.
ScanForOpportunities(ps, cs) ==
    LET vitals(x) == Get(x, "vitals_score", 0)
        eff(x)    == Get(x, "projected_efficiency", 0)
        has_p     == Len(ps) > 0
        has_c     == Len(cs) > 0
        weakest_position ==
            IF has_p THEN ps[FirstMinIndex([i \in 1..Len(ps) |-> vitals(ps[i])])] ELSE None
        min_vitals       == IF has_p THEN vitals(weakest_position) ELSE 99900
        top_candidate ==
            IF has_c THEN cs[FirstMaxIndex([i \in 1..Len(cs) |-> eff(cs[i])])] ELSE None
        max_external_score == IF has_c THEN eff(top_candidate) ELSE 0
        efficiency_gap   == max_external_score - min_vitals
        better == IF has_p /\ has_c THEN efficiency_gap > OpportunityThreshold
                  ELSE (~has_p) /\ has_c
        confidence == IF has_p /\ has_c
                      THEN IF efficiency_gap > OpportunityThreshold
                           THEN IF efficiency_gap > OpportunityThreshold * 2
                                THEN "HIGH" ELSE "MEDIUM"
                           ELSE "LOW"
                      ELSE IF (~has_p) /\ has_c THEN "HIGH" ELSE "N/A"
    IN  [weakest_held_symbol |-> IF has_p THEN weakest_position.symbol ELSE "N/A",
         weakest_held_score |-> IF has_p THEN min_vitals ELSE 0,
         best_external_symbol |-> IF has_c THEN top_candidate.symbol ELSE "N/A",
         best_external_score |-> max_external_score,
         better_opportunity_exists |-> better,
         confidence |-> confidence]

(***************************************************************************)
(* decision_explainer: a reason is the fixed text of its message.          *)
(***************************************************************************)

InSeq(x, seq) == \E i \in 1..Len(seq) : seq[i] = x

\* word in r.lower(), for the reasons explain_decision can have appended
\* by the time it asks
ReasonContains(r, word) ==
    CASE word = "vitals" -> r \in {"Position vitals strong", "Position vitals acceptable",
                                   "Position vitals weak", "Position vitals critically low"}
      [] word = "capital" -> r \in {"Identified as dead capital in cold sector",
                                    "Portfolio requires capital reallocation"}
      [] word = "sector" -> r \in {"Identified as dead capital in cold sector",
                                   "Sector shows strong momentum",
                                   "Sector over-concentrated",
                                   "Sector approaching concentration limit"}
      [] word = "opportunity" -> r \in {"High-confidence upgrade opportunity available",
                                        "Medium-confidence opportunity detected"}
      [] OTHER -> FALSE

\* The de-duplication loop: reasons[i..] without the strings in seen and
\* without repetitions, in the order of first occurrence
RECURSIVE UniqueReasons(_, _, _)
UniqueReasons(reasons, i, seen) ==
    IF i > Len(reasons) THEN <<>>
    ELSE IF reasons[i] \in seen THEN UniqueReasons(reasons, i + 1, seen)
    ELSE <<reasons[i]>> \o UniqueReasons(reasons, i + 1, seen \cup {reasons[i]})

\* explain_decision without the fallback reason of its quality-assurance
\* step.
ExplainDecisionNoFallback(action, position_data, portfolio_signals, risk_signals) ==
    LET symbol == position_data.symbol
        vitals == position_data.vitals_score
        sector == position_data.sector
        flags  == position_data.flags
        conc == risk_signals.concentration_warning
        better_opp   == risk_signals.better_opp_exists
        opp_conf     == risk_signals.opp_confidence
        opt(c, r) == IF c THEN <<r>> ELSE <<>>
        r1 == <<IF vitals >= 7000 THEN "Position vitals strong"
                ELSE IF vitals >= 6000 THEN "Position vitals acceptable"
                ELSE IF vitals >= 4000 THEN "Position vitals weak"
                ELSE "Position vitals critically low">>
        r2 == r1 \o opt(InSeq(symbol, portfolio_signals.dead_capital_symbols),
                        "Identified as dead capital in cold sector")
        r3 == r2 \o (IF better_opp /\ opp_conf = "HIGH"
                     THEN <<"High-confidence upgrade opportunity available">>
                     ELSE IF better_opp /\ opp_conf = "MEDIUM"
                     THEN <<"Medium-confidence opportunity detected">>
                     ELSE <<>>)
        r4 == r3 \o opt(sector \in portfolio_signals.hot_sectors,
                        "Sector shows strong momentum")
        r5 == r4 \o opt(conc.is_concentrated /\ sector = conc.dominant_sector,
                        "Sector over-concentrated")
        r6 == r5 \o opt(conc.severity = "APPROACHING"
                            /\ sector = conc.dominant_sector,
                        "Sector approaching concentration limit")
        r7 == r6 \o opt(portfolio_signals.reallocation_pressure,
                        "Portfolio requires capital reallocation")
        r8 == r7 \o opt(InSeq("STAGNANT", flags), "Position stagnant for extended period")
                 \o opt(InSeq("LOW_VOLATILITY", flags), "Low volatility detected")
                 \o opt(InSeq("HIGH_VOLATILITY", flags), "High volatility detected")
        r9 == r8 \o opt(action \in {"FREE_CAPITAL", "REDUCE_AGGRESSIVE", "REDUCE"}
                            /\ ~\E i \in 1..Len(r8) :
                                   ReasonContains(r8[i], "capital")
                                   \/ ReasonContains(r8[i], "vitals"),
                        "Risk mitigation required")
        r10 == r9 \o opt(action \in {"ALLOCATE_HIGH", "ALLOCATE", "ALLOCATE_CAPPED"}
                             /\ position_data.type = "CANDIDATE"
                             /\ ~\E i \in 1..Len(r9) :
                                    ReasonContains(r9[i], "sector")
                                    \/ ReasonContains(r9[i], "opportunity"),
                         "Positive risk/reward profile")
    IN  UniqueReasons(r10, 1, {})

\* explain_decision(action, position_data, portfolio_signals, risk_signals);
\* the sector name and the exposure inside a reason text are left out.
ExplainDecision(action, position_data, portfolio_signals, risk_signals) ==
    LET symbol == position_data.symbol
        vitals == position_data.vitals_score
        sector == position_data.sector
        flags  == position_data.flags
        conc == risk_signals.concentration_warning
        better_opp   == risk_signals.better_opp_exists
        opp_conf     == risk_signals.opp_confidence
        opt(c, r) == IF c THEN <<r>> ELSE <<>>
        r1 == <<IF vitals >= 7000 THEN "Position vitals strong"
                ELSE IF vitals >= 6000 THEN "Position vitals acceptable"
                ELSE IF vitals >= 4000 THEN "Position vitals weak"
                ELSE "Position vitals critically low">>
        r2 == r1 \o opt(InSeq(symbol, portfolio_signals.dead_capital_symbols),
                        "Identified as dead capital in cold sector")
        r3 == r2 \o (IF better_opp /\ opp_conf = "HIGH"
                     THEN <<"High-confidence upgrade opportunity available">>
                     ELSE IF better_opp /\ opp_conf = "MEDIUM"
                     THEN <<"Medium-confidence opportunity detected">>
                     ELSE <<>>)
        r4 == r3 \o opt(sector \in portfolio_signals.hot_sectors,
                        "Sector shows strong momentum")
        r5 == r4 \o opt(conc.is_concentrated /\ sector = conc.dominant_sector,
                        "Sector over-concentrated")
        r6 == r5 \o opt(conc.severity = "APPROACHING"
                            /\ sector = conc.dominant_sector,
                        "Sector approaching concentration limit")
        r7 == r6 \o opt(portfolio_signals.reallocation_pressure,
                        "Portfolio requires capital reallocation")
        r8 == r7 \o opt(InSeq("STAGNANT", flags), "Position stagnant for extended period")
                 \o opt(InSeq("LOW_VOLATILITY", flags), "Low volatility detected")
                 \o opt(InSeq("HIGH_VOLATILITY", flags), "High volatility detected")
        r9 == r8 \o opt(action \in {"FREE_CAPITAL", "REDUCE_AGGRESSIVE", "REDUCE"}
                            /\ ~\E i \in 1..Len(r8) :
                                   ReasonContains(r8[i], "capital")
                                   \/ ReasonContains(r8[i], "vitals"),
                        "Risk mitigation required")
        r10 == r9 \o opt(action \in {"ALLOCATE_HIGH", "ALLOCATE", "ALLOCATE_CAPPED"}
                             /\ position_data.type = "CANDIDATE"
                             /\ ~\E i \in 1..Len(r9) :
                                    ReasonContains(r9[i], "sector")
                                    \/ ReasonContains(r9[i], "opportunity"),
                         "Positive risk/reward profile")
        r11 == r10 \o opt(Len(r10) < 2,
                          IF position_data.type = "POSITION"
                          THEN "Action based on current position state"
                          ELSE "Action based on market assessment")
    IN  UniqueReasons(r11, 1, {})

\* enrich_decisions_with_explanations(decisions, portfolio_signals, risk_signals)
EnrichDecisionsWithExplanations(ds, portfolio_signals, risk_signals) ==
    [i \in 1..Len(ds) |->
        LET decision == ds[i]
            position_data == [symbol |-> Get(decision, "target", None),
                              vitals_score |-> Get(decision, "score", 5000),
                              sector |-> Get(decision, "sector", "UNKNOWN"),
                              flags |-> Get(decision, "flags", <<>>),
                              type |-> Get(decision, "type", "POSITION")]
        IN  Put(decision, "reasons",
                ExplainDecision(Get(decision, "action", "UNKNOWN"), position_data,
                                portfolio_signals, risk_signals))]

\* Variant of DecisionAfterEnrichment for a loop that sets reasons on the
\* decision itself.
DecisionAfterEnrichmentInPlace(decision, reasons) == Put(decision, "reasons", reasons)

\* The caller's decision after the loop enriched it: line 202 copies it and
\* line 203 writes reasons to the copy
DecisionAfterEnrichment(decision, reasons) == decision

\* The caller's list after enrich_decisions_with_explanations
DecisionsAfterEnrichment(ds, portfolio_signals, risk_signals) ==
    LET enriched == EnrichDecisionsWithExplanations(ds, portfolio_signals, risk_signals)
    IN  [i \in 1..Len(ds) |-> DecisionAfterEnrichment(ds[i], enriched[i].reasons)]

(***************************************************************************)
(* decision_engine.run_decision_engine: decision synthesis                 *)
(***************************************************************************)

CashAllocateAbove == 100
EngineMinimumReserve == 50

\* dict.update
Update(d, e) == [k \in (DOMAIN d) \cup (DOMAIN e) |-> IF k \in DOMAIN e THEN e[k] ELSE d[k]]

\* str.lower() on the health labels
Lower(s) ==
    CASE s = "HEALTHY" -> "healthy"
      [] s = "WEAK" -> "weak"
      [] s = "UNHEALTHY" -> "unhealthy"
      [] OTHER -> s

\* The vitals loop: each position copied and updated with its vitals
AnalyzePositions(ps) == [i \in 1..Len(ps) |-> Update(ps[i], ComputeVitals(ps[i]))]

\* Variant of PositionAfterVitals for a loop that updates the position
\* itself.
PositionAfterVitalsInPlace(pos) == Update(pos, ComputeVitals(pos))

\* The caller's position after the vitals loop: compute_vitals only reads
\* it, and line 281 copies it before line 282 updates the copy
PositionAfterVitals(pos) == pos

\* The caller's list after the vitals loop
PositionsAfterVitalsLoop(ps) == [i \in 1..Len(ps) |-> PositionAfterVitals(ps[i])]

\* vitals_counts, from the health each analyzed position took from its
\* vitals_result
VitalsCounts(analyzed) ==
    [h \in {"healthy", "weak", "unhealthy"} |->
        Cardinality({i \in 1..Len(analyzed) : Lower(analyzed[i].health) = h})]

\* Variant of PositionChainAction that tests the concentration branch before
\* the dead-capital branch.
PositionChainActionRiskFirst(pos, dead_symbols, pressure, better_opp, opp_conf, conc) ==
    LET symbol == pos.symbol
        vitals == pos.vitals_score
        sector == Get(pos, "sector", "UNKNOWN")
        flags  == Get(pos, "flags", <<>>)
        is_concentrated_sector == conc.is_concentrated /\ sector = conc.dominant_sector
    IN  IF is_concentrated_sector
        THEN IF vitals < 6000 THEN "TRIM_RISK" ELSE "HOLD_CAPPED"
        ELSE IF InSeq(symbol, dead_symbols) /\ pressure
        THEN IF better_opp /\ opp_conf = "HIGH"
             THEN "FREE_CAPITAL" ELSE "REDUCE_AGGRESSIVE"
        ELSE IF vitals < 4000 THEN "REDUCE"
        ELSE IF InSeq("STAGNANT", flags) THEN "REVIEW"
        ELSE IF vitals < 6000 THEN "HOLD"
        ELSE "MAINTAIN"

\* The action of a position after the if/elif chain; pos always carries
\* the flags compute_vitals returned, so the fallback that derives
\* STAGNANT from the prices never runs.
PositionChainAction(pos, dead_symbols, pressure, better_opp, opp_conf, conc) ==
    LET symbol == pos.symbol
        vitals == pos.vitals_score
        sector == Get(pos, "sector", "UNKNOWN")
        flags  == Get(pos, "flags", <<>>)
        is_concentrated_sector == conc.is_concentrated /\ sector = conc.dominant_sector
    IN  IF InSeq(symbol, dead_symbols) /\ pressure
        THEN IF better_opp /\ opp_conf = "HIGH"
             THEN "FREE_CAPITAL" ELSE "REDUCE_AGGRESSIVE"
        ELSE IF is_concentrated_sector
        THEN IF vitals < 6000 THEN "TRIM_RISK" ELSE "HOLD_CAPPED"
        ELSE IF vitals < 4000 THEN "REDUCE"
        ELSE IF InSeq("STAGNANT", flags) THEN "REVIEW"
        ELSE IF vitals < 6000 THEN "HOLD"
        ELSE "MAINTAIN"

\* Variant of PostureOverride that also replaces REDUCE.
PostureOverrideReduce(action, market_posture) ==
    IF market_posture = "RISK_OFF" /\ action \in {"HOLD", "REVIEW", "MAINTAIN", "REDUCE"}
    THEN "REDUCE_RISK" ELSE action

\* The RISK_OFF override that follows the chain
PostureOverride(action, market_posture) ==
    IF market_posture = "RISK_OFF" /\ action \in {"HOLD", "REVIEW", "MAINTAIN"}
    THEN "REDUCE_RISK" ELSE action

\* Variant of ActiveCandidates that cuts inflows under DEFENSIVE only.
ActiveCandidatesDefensiveOnly(cands, market_posture) ==
    IF market_posture \in {"DEFENSIVE"} THEN <<>> ELSE cands

\* active_candidates
ActiveCandidates(cands, market_posture) ==
    IF market_posture \in {"DEFENSIVE", "RISK_OFF"} THEN <<>> ELSE cands

\* The result of evaluating portfolio_state["cash"] without the key
KeyErrorCash == "KeyError: 'cash'"

\* Variant of CandidateAction that deploys freed capital without looking at
\* the nearness to the concentration limit.
CandidateActionUncapped(cand, active, conc, hot_sectors, reallocation_pressure, portfolio) ==
    LET sector == cand.sector
        is_sector_approaching == conc.severity = "APPROACHING" /\ sector = conc.dominant_sector
        is_sector_breached    == conc.is_concentrated /\ sector = conc.dominant_sector
    IN  IF ~InSeq(cand, active) THEN "BLOCK_POSTURE"
        ELSE IF is_sector_breached THEN "BLOCK_RISK"
        ELSE IF sector \in hot_sectors
        THEN IF reallocation_pressure
             THEN "ALLOCATE_HIGH"
             ELSE IF "cash" \notin DOMAIN portfolio THEN KeyErrorCash
             ELSE IF portfolio["cash"] > CashAllocateAbove
             THEN IF is_sector_approaching THEN "ALLOCATE_CAUTIOUS" ELSE "ALLOCATE"
             ELSE "WATCHLIST"
        ELSE "IGNORE"

\* Variant of CandidateAction that tests the hot sector before the breach.
CandidateActionHotFirst(cand, active, conc, hot_sectors, reallocation_pressure, portfolio) ==
    LET sector == cand.sector
        is_sector_approaching == conc.severity = "APPROACHING" /\ sector = conc.dominant_sector
        is_sector_breached    == conc.is_concentrated /\ sector = conc.dominant_sector
    IN  IF ~InSeq(cand, active) THEN "BLOCK_POSTURE"
        ELSE IF sector \in hot_sectors
        THEN IF reallocation_pressure
             THEN IF is_sector_approaching THEN "ALLOCATE_CAPPED" ELSE "ALLOCATE_HIGH"
             ELSE IF "cash" \notin DOMAIN portfolio THEN KeyErrorCash
             ELSE IF portfolio["cash"] > CashAllocateAbove
             THEN IF is_sector_approaching THEN "ALLOCATE_CAUTIOUS" ELSE "ALLOCATE"
             ELSE "WATCHLIST"
        ELSE IF is_sector_breached THEN "BLOCK_RISK"
        ELSE "IGNORE"

\* The action of a candidate, or KeyErrorCash where the code raises
CandidateAction(cand, active, conc, hot_sectors, reallocation_pressure, portfolio) ==
    LET sector == cand.sector
        is_sector_approaching == conc.severity = "APPROACHING" /\ sector = conc.dominant_sector
        is_sector_breached    == conc.is_concentrated /\ sector = conc.dominant_sector
    IN  IF ~InSeq(cand, active) THEN "BLOCK_POSTURE"
        ELSE IF is_sector_breached THEN "BLOCK_RISK"
        ELSE IF sector \in hot_sectors
        THEN IF reallocation_pressure
             THEN IF is_sector_approaching THEN "ALLOCATE_CAPPED" ELSE "ALLOCATE_HIGH"
             ELSE IF "cash" \notin DOMAIN portfolio THEN KeyErrorCash
             ELSE IF portfolio["cash"] > CashAllocateAbove
             THEN IF is_sector_approaching THEN "ALLOCATE_CAUTIOUS" ELSE "ALLOCATE"
             ELSE "WATCHLIST"
        ELSE "IGNORE"

\* decision["sector"] and decision["flags"] are taken from the first
\* position, or candidate, whose symbol is the decision's target
AttachSectorAndFlags(decision, analyzed, cands) ==
    IF decision.type = "POSITION"
    THEN IF \E i \in 1..Len(analyzed) : analyzed[i].symbol = decision.target
         THEN LET matching_pos ==
                      analyzed[CHOOSE i \in 1..Len(analyzed) :
                                   /\ analyzed[i].symbol = decision.target
                                   /\ \A j \in 1..(i - 1) : analyzed[j].symbol # decision.target]
              IN  Put(Put(decision, "sector", Get(matching_pos, "sector", "UNKNOWN")),
                      "flags", Get(matching_pos, "flags", <<>>))
         ELSE decision
    ELSE IF \E i \in 1..Len(cands) : cands[i].symbol = decision.target
         THEN LET matching_cand ==
                      cands[CHOOSE i \in 1..Len(cands) :
                                /\ cands[i].symbol = decision.target
                                /\ \A j \in 1..(i - 1) : cands[j].symbol # decision.target]
              IN  Put(decision, "sector", Get(matching_cand, "sector", "UNKNOWN"))
         ELSE decision

(***************************************************************************)
(* decision_engine._structure_superiority_output                           *)
(***************************************************************************)

\* priority_map with REDUCE_AGGRESSIVE ranked like FREE_CAPITAL
ActionPriorityReduceAggressive(action) ==
    CASE action \in {"FREE_CAPITAL", "ALLOCATE_HIGH", "REDUCE_AGGRESSIVE"} -> 4
      [] action \in {"ALLOCATE", "TRIM_RISK"} -> 3
      [] action = "REDUCE" -> 2
      [] action \in {"HOLD", "MAINTAIN"} -> 1
      [] OTHER -> 0

\* priority_map.get(action, 0)
ActionPriority(action) ==
    CASE action \in {"FREE_CAPITAL", "ALLOCATE_HIGH"} -> 4
      [] action \in {"ALLOCATE", "TRIM_RISK"} -> 3
      [] action = "REDUCE" -> 2
      [] action \in {"HOLD", "MAINTAIN"} -> 1
      [] OTHER -> 0

\* The first element of a list sorted in place with reverse=True on the key
\* (priority, score): the sort is stable, so it is the first decision no
\* other decision exceeds
PrimaryDecision(actionable) ==
    LET above(a, b) ==
            \/ ActionPriority(a.action) > ActionPriority(b.action)
            \/ /\ ActionPriority(a.action) = ActionPriority(b.action)
               /\ a.score > b.score
    IN  actionable[CHOOSE i \in 1..Len(actionable) :
                       /\ \A j \in 1..Len(actionable) : ~above(actionable[j], actionable[i])
                       /\ \A j \in 1..(i - 1) : above(actionable[i], actionable[j])]

\* alternatives.sort(key=score, reverse=True): stable, descending
RECURSIVE SortByScoreDescending(_)
SortByScoreDescending(alts) ==
    IF Len(alts) = 0 THEN <<>>
    ELSE LET first == FirstMaxIndex([i \in 1..Len(alts) |-> alts[i].score])
         IN  <<alts[first]>> \o
             SortByScoreDescending([i \in 1..(Len(alts) - 1) |->
                                       IF i < first THEN alts[i] ELSE alts[i + 1]])

\* The values random.uniform(2.1, 4.5) and random.uniform(1.2, 5.8) take
\* once formatted to one decimal, in tenths: the ends of each range
DrawdownAvoidedDraws == {21, 45}
EfficiencyDeltaDraws == {12, 58}

\* The draws a call can make: capital_efficiency_delta when there is a
\* primary decision, drawdown_avoided when there is none
CounterfactualDraws(safe_decisions) ==
    IF \E i \in 1..Len(safe_decisions) : ActionPriority(safe_decisions[i].action) > 0
    THEN EfficiencyDeltaDraws ELSE DrawdownAvoidedDraws

\* The parts of the superiority analysis that do not depend on the draw
SuperiorityRanking(safe_decisions, blocked_decisions, posture) ==
    LET IsActionable(d) == ActionPriority(d.action) > 0
        actionable == SelectSeq(safe_decisions, IsActionable)
        has_primary == Len(actionable) > 0
        primary == IF has_primary THEN PyDict(PrimaryDecision(actionable)) ELSE PyNone
        IsRejected(d) ==
            /\ PyDict(d) # primary
            /\ d.type = "CANDIDATE"
            /\ d.action \in {"WATCHLIST", "IGNORE"}
        rejected == SelectSeq(safe_decisions, IsRejected)
        alternatives ==
            [i \in 1..Len(blocked_decisions) |->
                [target |-> blocked_decisions[i].target, type |-> "BLOCKED",
                 score |-> blocked_decisions[i].score]]
            \o [i \in 1..Len(rejected) |->
                   [target |-> rejected[i].target, type |-> "REJECTED",
                    score |-> rejected[i].score]]
        sorted == SortByScoreDescending(alternatives)
        base_conf == Get(posture, "confidence", 50)
        action_conf ==
            IF ~has_primary THEN base_conf
            ELSE IF primary.dict.score > 8000 THEN Min(100, base_conf + 10)
            ELSE IF primary.dict.score < 4000 THEN Max(0, base_conf - 10)
            ELSE base_conf
    IN  [primary_decision |-> primary,
         alternatives_considered |-> SubSeq(sorted, 1, Min(3, Len(sorted))),
         decision_confidence |-> action_conf,
         dominance_check |->
             IF has_primary THEN PyNone
             ELSE PyDict([justification |->
                              "Inaction selected as optimal risk-adjusted decision."])]

\* The counterfactual dict for a draw, in tenths of a percent
Counterfactual(has_primary, draw) ==
    IF has_primary
    THEN [median_alternative_risk |-> "HIGH", capital_efficiency_delta |-> draw,
          confidence_level |-> "Medium (simulation-based)"]
    ELSE [median_alternative_risk |-> "HIGH", drawdown_avoided |-> draw,
          capital_efficiency_delta |-> 0,
          confidence_level |-> "Medium (simulation-based)"]

\* Variant of StructureSuperiorityOutput whose decision_confidence is taken
\* from the simulated draw.
StructureSuperiorityOutputSimulated(safe_decisions, blocked_decisions, posture, draw) ==
    LET ranking == SuperiorityRanking(safe_decisions, blocked_decisions, posture)
    IN  [primary_decision |-> ranking.primary_decision,
         alternatives_considered |-> ranking.alternatives_considered,
         decision_confidence |-> Min(100, draw),
         dominance_check |-> ranking.dominance_check,
         counterfactual |-> Counterfactual(ranking.primary_decision # PyNone, draw)]

\* _structure_superiority_output(safe_decisions, blocked_decisions,
\* all_candidates, posture_report) for one outcome of its random draw;
\* all_candidates is not read, and the reason text of an alternative is not
\* modelled.  decision_confidence is in hundredths.
StructureSuperiorityOutput(safe_decisions, blocked_decisions, posture, draw) ==
    LET ranking == SuperiorityRanking(safe_decisions, blocked_decisions, posture)
    IN  [primary_decision |-> ranking.primary_decision,
         alternatives_considered |-> ranking.alternatives_considered,
         decision_confidence |-> ranking.decision_confidence,
         dominance_check |-> ranking.dominance_check,
         counterfactual |-> Counterfactual(ranking.primary_decision # PyNone, draw)]

\* The state of the engine's variables while run_decision_engine is not
\* being called
EngineNotCalled ==
    /\ portfolio_state = None
    /\ positions = None
    /\ sector_heatmap = None
    /\ candidates = None
    /\ market_context = None
    /\ atr_res = None
    /\ baseline = None
    /\ news_res = None
    /\ analyzed_positions = None
    /\ lock_in_report = None
    /\ concentration_report = None
    /\ conc_warning = None
    /\ active_candidates = None
    /\ opportunity_report = None
    /\ chain_actions = None
    /\ decisions = None
    /\ earlier_reports = <<>>
    /\ report = None
    /\ raised = None

(***************************************************************************)
(* Specification of apply_risk_guardrails as a function of its arguments   *)
(***************************************************************************)

MaxDecisions == 2

GuardActionInputs ==
    {"ALLOCATE", "ALLOCATE_HIGH", "ALLOCATE_AGGRESSIVE", "SCALE_UP",
     "DOUBLE_DOWN", "ADD_POSITION", "ALLOCATE_CAPPED", "ALLOCATE_CAUTIOUS",
     "REDUCE", "HOLD"}

\* Decisions as the explainer hands them over, and the bare {"target": "X"} of
\* the module's own Test 4.
GuardDecisionInputs ==
    {[target |-> "A", type |-> "CANDIDATE", action |-> a, sector |-> "TECH"] :
        a \in GuardActionInputs}
    \cup {[target |-> "B", type |-> "CANDIDATE", action |-> a, sector |-> "ENERGY"] :
        a \in {"ALLOCATE", "ALLOCATE_HIGH", "SCALE_UP"}}
    \cup {[target |-> "X"]}

GuardConcentrationInputs ==
    {[is_concentrated |-> TRUE, dominant_sector |-> "TECH", severity |-> "SOFT_BREACH"],
     [is_concentrated |-> FALSE, dominant_sector |-> "TECH", severity |-> "APPROACHING"],
     [is_concentrated |-> FALSE]}

GuardContextInputs ==
    {PyNone, PyStr("STABLE"), PyList(<<>>)}
    \cup {PyDict(d) : d \in DictsOver({
            <<"concentration", GuardConcentrationInputs>>,
            <<"cash_available", {30, 100}>>,
            <<"minimum_reserve", {20}>>,
            <<"volatility_state", {"STABLE", "EXPANDING"}>>})}

InitGuard ==
    /\ pc = "guard_call"
    /\ proposed_decisions \in SeqsUpTo(GuardDecisionInputs, MaxDecisions)
    /\ risk_context \in GuardContextInputs
    /\ guardrail_results = None
    /\ volatility_state = None
    /\ confidence_score = 0
    /\ vitals_summary = EmptyDict
    /\ posture_report = None
    /\ EngineNotCalled

CallApplyRiskGuardrails ==
    /\ pc = "guard_call"
    /\ guardrail_results' = ApplyRiskGuardrails(proposed_decisions, risk_context)
    /\ proposed_decisions' = DecisionsAfterGuardrails(proposed_decisions, risk_context)
    /\ pc' = "guard_done"
    /\ UNCHANGED <<risk_context, volatility_state,
                   confidence_score, vitals_summary, posture_report,
                   engine_inputs, earlier_reports, engine_locals>>

NextGuard == CallApplyRiskGuardrails

SpecGuard == InitGuard /\ [][NextGuard]_vars

(***************************************************************************)
(* Specification of determine_market_posture as a function of its          *)
(* arguments                                                               *)
(***************************************************************************)

MaxCount == 2

PostureVolatilityInputs == {"EXPANDING", "CONTRACTING", "STABLE", "UNKNOWN_STATE"}

PostureConfidenceInputs == {0, 30, 49, 50, 51, 65, 66, 70, 71, 100}

PostureSummaryInputs ==
    DictsOver({<<"healthy", 0..MaxCount>>, <<"unhealthy", 0..MaxCount>>})

InitPosture ==
    /\ pc = "posture_call"
    /\ volatility_state \in PostureVolatilityInputs
    /\ confidence_score \in PostureConfidenceInputs
    /\ vitals_summary \in PostureSummaryInputs
    /\ posture_report = None
    /\ proposed_decisions = <<>>
    /\ risk_context = PyNone
    /\ guardrail_results = None
    /\ EngineNotCalled

CallDetermineMarketPosture ==
    /\ pc = "posture_call"
    /\ posture_report' =
           DetermineMarketPosture(volatility_state, confidence_score, vitals_summary)
    /\ pc' = "posture_done"
    /\ UNCHANGED <<proposed_decisions, risk_context, guardrail_results,
                   volatility_state, confidence_score, vitals_summary,
                   engine_inputs, earlier_reports, engine_locals>>

NextPosture == CallDetermineMarketPosture

SpecPosture == InitPosture /\ [][NextPosture]_vars

(***************************************************************************)
(* Specification of run_decision_engine: one call, from its arguments to   *)
(* the returned report or the exception that ends it.  Each action is one  *)
(* of the numbered sections of the function body.                          *)
(***************************************************************************)

\* The number of positions and candidates of a call, taken together
MaxInputs == 3

\* Held positions: NVDA healthy (72.62), AMD weak and stagnant (40.8), MSFT
\* weak (56.0), XOM unhealthy (8.0), CVX weak (43.6), INTC with an entry
\* price of 0, and NEWCO with nothing but its symbol.
PositionInputs ==
    {[symbol |-> "NVDA", sector |-> "TECH", entry_price |-> 100, current_price |-> 110,
      atr |-> 25, days_held |-> 10, capital_allocated |-> 650],
     [symbol |-> "AMD", sector |-> "TECH", entry_price |-> 100, current_price |-> 99,
      atr |-> 25, days_held |-> 30, capital_allocated |-> 250],
     [symbol |-> "MSFT", sector |-> "TECH", entry_price |-> 100, current_price |-> 101,
      atr |-> 10, days_held |-> 10, capital_allocated |-> 100],
     [symbol |-> "XOM", sector |-> "ENERGY", entry_price |-> 100, current_price |-> 90,
      atr |-> 50, days_held |-> 10, capital_allocated |-> 100],
     [symbol |-> "CVX", sector |-> "ENERGY", entry_price |-> 100, current_price |-> 99,
      atr |-> 10, days_held |-> 5, capital_allocated |-> 750],
     [symbol |-> "INTC", sector |-> "ENERGY", entry_price |-> 0, current_price |-> 50,
      atr |-> 10, days_held |-> 10, capital_allocated |-> 800],
     [symbol |-> "NEWCO"]}

CandidateInputs ==
    {[symbol |-> "AVGO", sector |-> "TECH", projected_efficiency |-> 9500],
     [symbol |-> "LLY", sector |-> "BIOTECH", projected_efficiency |-> 8800],
     [symbol |-> "SLB", sector |-> "ENERGY"]}

PortfolioInputs ==
    {[total_capital |-> 1000, cash |-> 150],
     [total_capital |-> 1000, cash |-> 30],
     [total_capital |-> 0, cash |-> 0],
     [total_capital |-> 1000]}

HeatmapInputs ==
    {[s \in {"TECH", "ENERGY"} |-> IF s = "TECH" THEN 80 ELSE 30],
     [s \in {"TECH", "ENERGY", "BIOTECH", "FINANCE"} |->
         CASE s = "TECH" -> 80 [] s = "ENERGY" -> 30 [] s = "BIOTECH" -> 70 [] OTHER -> 75],
     [s \in {"TECH"} |-> 60]}

\* Twenty equal candles without timestamps (tests/test_system.py)
MockCandles == [i \in 1..20 |-> [high |-> 100, low |-> 98, close |-> 99]]

\* No context, live signals, and the override_inputs of the crash_reflex
\* and concentration_guard scenarios as full_system_demo.py passes them
MarketContextInputs ==
    {PyNone,
     PyDict([candles |-> MockCandles,
             news |-> <<{"rally", "demand", "soar"}, {"record", "profit"}>>]),
     PyDict([candles |-> MockCandles, news |-> <<{"crash", "warns"}>>,
             override_volatility |-> "EXPANDING", override_news_score |-> 85,
             override_confidence |-> 30]),
     PyDict([candles |-> MockCandles, news |-> <<>>,
             override_volatility |-> "CONTRACTING", override_news_score |-> 75,
             override_confidence |-> 80])}

\* Every heatmap with the two complete portfolios, and every portfolio and
\* every market context with the first heatmap
EnvironmentInputs ==
    {e \in [portfolio : PortfolioInputs, heatmap : HeatmapInputs, context : MarketContextInputs] :
        \/ /\ e.context = PyNone
           /\ DOMAIN e.portfolio = {"total_capital", "cash"}
           /\ e.portfolio["total_capital"] > 0
        \/ /\ e.context = PyNone
           /\ DOMAIN e.heatmap = {"TECH", "ENERGY"}
        \/ /\ e.portfolio = [total_capital |-> 1000, cash |-> 150]
           /\ DOMAIN e.heatmap = {"TECH", "ENERGY"}}

Init ==
    /\ pc = "engine_signals"
    /\ positions \in SeqsUpTo(PositionInputs, MaxInputs)
    /\ candidates \in SeqsUpTo(CandidateInputs, MaxInputs - Len(positions))
    /\ \E e \in EnvironmentInputs :
          /\ portfolio_state = e.portfolio
          /\ sector_heatmap = e.heatmap
          /\ market_context = e.context
    /\ proposed_decisions = None
    /\ risk_context = None
    /\ guardrail_results = None
    /\ volatility_state = None
    /\ confidence_score = None
    /\ vitals_summary = None
    /\ posture_report = None
    /\ atr_res = None
    /\ baseline = None
    /\ news_res = None
    /\ analyzed_positions = None
    /\ lock_in_report = None
    /\ concentration_report = None
    /\ conc_warning = None
    /\ active_candidates = None
    /\ opportunity_report = None
    /\ chain_actions = None
    /\ decisions = None
    /\ report = None
    /\ raised = None
    /\ earlier_reports = <<>>

\* PREPARE MARKET SIGNALS taking a supplied override_volatility as the
\* volatility state
PrepareMarketSignalsWithOverride ==
    /\ pc = "engine_signals"
    /\ LET ctx == IF Truthy(market_context) THEN market_context.dict ELSE EmptyDict
           cs  == Get(ctx, "candles", <<>>)
           atr_res_now == IF Len(cs) > 0 THEN ComputeAtr(cs) ELSE [atr |-> <<>>]
           atr_truthy  == Len(atr_res_now.atr) = 1 /\ atr_res_now.atr[1] # 0
           vol_state ==
               IF "override_volatility" \in DOMAIN ctx
               THEN ctx["override_volatility"]
               ELSE IF atr_truthy
               THEN ClassifyVolatilityState(atr_res_now.atr[1],
                                            atr_res_now.atr[1]).volatility_state
               ELSE "STABLE"
           headlines == Get(ctx, "news", <<>>)
           news == IF Len(headlines) > 0 THEN ScoreTechNews(headlines)
                   ELSE [news_score |-> 50]
       IN  /\ atr_res' = IF Len(cs) > 0 THEN atr_res_now ELSE None
           /\ baseline' = IF atr_truthy THEN atr_res_now.atr[1] ELSE None
           /\ volatility_state' = vol_state
           /\ news_res' = news
           /\ confidence_score' =
                  IF "override_confidence" \in DOMAIN ctx
                  THEN ctx["override_confidence"]
                  ELSE ComputeSectorConfidence(vol_state, news.news_score).sector_confidence
    /\ pc' = "engine_positions"
    /\ UNCHANGED <<proposed_decisions, risk_context, guardrail_results,
                   vitals_summary, posture_report, engine_inputs,
                   earlier_reports, analyzed_positions, lock_in_report,
                   concentration_report, conc_warning, active_candidates,
                   opportunity_report, chain_actions, decisions, report,
                   raised>>

\* 1. PREPARE MARKET SIGNALS
PrepareMarketSignals ==
    /\ pc = "engine_signals"
    /\ LET ctx == IF Truthy(market_context) THEN market_context.dict ELSE EmptyDict
           cs  == Get(ctx, "candles", <<>>)
           atr_res_now == IF Len(cs) > 0 THEN ComputeAtr(cs) ELSE [atr |-> <<>>]
           atr_truthy  == Len(atr_res_now.atr) = 1 /\ atr_res_now.atr[1] # 0
           vol_state ==
               IF atr_truthy
               THEN ClassifyVolatilityState(atr_res_now.atr[1],
                                            atr_res_now.atr[1]).volatility_state
               ELSE "STABLE"
           headlines == Get(ctx, "news", <<>>)
           news == IF Len(headlines) > 0 THEN ScoreTechNews(headlines)
                   ELSE [news_score |-> 50]
       IN  /\ atr_res' = IF Len(cs) > 0 THEN atr_res_now ELSE None
           /\ baseline' = IF atr_truthy THEN atr_res_now.atr[1] ELSE None
           /\ volatility_state' = vol_state
           /\ news_res' = news
           /\ confidence_score' =
                  IF "override_confidence" \in DOMAIN ctx
                  THEN ctx["override_confidence"]
                  ELSE ComputeSectorConfidence(vol_state, news.news_score).sector_confidence
    /\ pc' = "engine_positions"
    /\ UNCHANGED <<proposed_decisions, risk_context, guardrail_results,
                   vitals_summary, posture_report, engine_inputs,
                   earlier_reports, analyzed_positions, lock_in_report,
                   concentration_report, conc_warning, active_candidates,
                   opportunity_report, chain_actions, decisions, report,
                   raised>>

\* 2. POSITIONS ANALYSIS and 3. DETERMINE MARKET POSTURE
AnalyzeAndDeterminePosture ==
    /\ pc = "engine_positions"
    /\ analyzed_positions' = AnalyzePositions(positions)
    /\ positions' = PositionsAfterVitalsLoop(positions)
    /\ vitals_summary' = VitalsCounts(analyzed_positions')
    /\ posture_report' =
           DetermineMarketPosture(volatility_state, confidence_score, vitals_summary')
    /\ pc' = "engine_portfolio"
    /\ UNCHANGED <<proposed_decisions, risk_context, guardrail_results,
                   volatility_state, confidence_score, portfolio_state,
                   sector_heatmap, candidates, market_context,
                   earlier_reports, atr_res, baseline, news_res,
                   lock_in_report, concentration_report, conc_warning,
                   active_candidates, opportunity_report, chain_actions,
                   decisions, report, raised>>

\* float(portfolio_state.get("total_capital", 1.0)) as <<n, d>>: n / d
\* thousands of dollars
TotalCapital(portfolio) ==
    IF "total_capital" \in DOMAIN portfolio
    THEN <<portfolio["total_capital"], 1>> ELSE <<1, 1000>>

\* 4. PORTFOLIO ANALYSIS, 5. RISK GUARDS and 6. OPPORTUNITY SCANNER
AnalyzePortfolio ==
    /\ pc = "engine_portfolio"
    /\ lock_in_report' =
           DetectCapitalLockIn(portfolio_state, analyzed_positions, sector_heatmap)
    /\ concentration_report' =
           AnalyzePortfolioConcentration(analyzed_positions, TotalCapital(portfolio_state))
    /\ conc_warning' = concentration_report'.warning
    /\ active_candidates' = ActiveCandidates(candidates, posture_report.market_posture)
    /\ opportunity_report' = ScanForOpportunities(analyzed_positions, active_candidates')
    /\ pc' = "engine_synthesis"
    /\ UNCHANGED <<proposed_decisions, risk_context, guardrail_results,
                   volatility_state, confidence_score, vitals_summary,
                   posture_report, engine_inputs, earlier_reports, atr_res,
                   baseline, news_res, analyzed_positions, chain_actions,
                   decisions, report, raised>>

\* [d["symbol"] for d in lock_in_report["dead_positions"]]
DeadCapitalSymbols(lock_in) ==
    [i \in 1..Len(lock_in.dead_positions) |-> lock_in.dead_positions[i].symbol]

\* 7. DECISION SYNTHESIS; the reason text of a decision is not modelled.
DecisionSynthesis ==
    /\ pc = "engine_synthesis"
    /\ LET chain == [i \in 1..Len(analyzed_positions) |->
                        PositionChainAction(analyzed_positions[i],
                                            DeadCapitalSymbols(lock_in_report),
                                            lock_in_report.reallocation_alert,
                                            opportunity_report.better_opportunity_exists,
                                            opportunity_report.confidence,
                                            conc_warning)]
           position_decisions ==
               [i \in 1..Len(analyzed_positions) |->
                   [target |-> analyzed_positions[i].symbol,
                    type |-> "POSITION",
                    action |-> PostureOverride(chain[i], posture_report.market_posture),
                    score |-> analyzed_positions[i].vitals_score]]
           candidate_decisions ==
               [i \in 1..Len(candidates) |->
                   [target |-> candidates[i].symbol,
                    type |-> "CANDIDATE",
                    action |-> CandidateAction(candidates[i], active_candidates,
                                               conc_warning, lock_in_report.hot_sectors,
                                               lock_in_report.reallocation_alert,
                                               portfolio_state),
                    score |-> Get(candidates[i], "projected_efficiency", 0)]]
       IN  /\ chain_actions' = chain
           /\ IF \E i \in 1..Len(candidates) : candidate_decisions[i].action = KeyErrorCash
              THEN /\ raised' = "KeyError"
                   /\ pc' = "engine_raised"
                   /\ UNCHANGED decisions
              ELSE /\ decisions' = position_decisions \o candidate_decisions
                   /\ pc' = "engine_explain"
                   /\ UNCHANGED raised
    /\ UNCHANGED <<proposed_decisions, risk_context, guardrail_results,
                   volatility_state, confidence_score, vitals_summary,
                   posture_report, engine_inputs, earlier_reports, atr_res,
                   baseline, news_res, analyzed_positions, lock_in_report,
                   concentration_report, conc_warning, active_candidates,
                   opportunity_report, report>>

\* portfolio_signals, as section 8 builds it
PortfolioSignals ==
    [dead_capital_symbols |-> DeadCapitalSymbols(lock_in_report),
     hot_sectors |-> lock_in_report.hot_sectors,
     reallocation_pressure |-> lock_in_report.reallocation_alert,
     pressure_score |-> lock_in_report.pressure_score]

\* risk_signals, as section 8 builds it
RiskSignals ==
    [concentration_warning |-> conc_warning,
     better_opp_exists |-> opportunity_report.better_opportunity_exists,
     opp_confidence |-> opportunity_report.confidence,
     market_posture |-> posture_report]

\* 8. EXPLANATION LAYER
ExplanationLayer ==
    /\ pc = "engine_explain"
    /\ LET attached == [i \in 1..Len(decisions) |->
                           AttachSectorAndFlags(decisions[i], analyzed_positions, candidates)]
       IN  /\ decisions' = DecisionsAfterEnrichment(attached, PortfolioSignals, RiskSignals)
           /\ proposed_decisions' =
                  EnrichDecisionsWithExplanations(attached, PortfolioSignals, RiskSignals)
    /\ pc' = "engine_guardrails"
    /\ UNCHANGED <<risk_context, guardrail_results, volatility_state,
                   confidence_score, vitals_summary, posture_report,
                   engine_inputs, earlier_reports, atr_res, baseline,
                   news_res, analyzed_positions, lock_in_report,
                   concentration_report, conc_warning, active_candidates,
                   opportunity_report, chain_actions, report, raised>>

\* 9. RISK GUARDRAILS
RiskGuardrails ==
    /\ pc = "engine_guardrails"
    /\ LET ctx == [concentration |-> conc_warning,
                   cash_available |-> Get(portfolio_state, "cash", 0),
                   minimum_reserve |-> EngineMinimumReserve,
                   volatility_state |-> volatility_state]
       IN  /\ risk_context' = PyDict(ctx)
           /\ guardrail_results' = ApplyRiskGuardrails(proposed_decisions, PyDict(ctx))
           /\ proposed_decisions' = DecisionsAfterGuardrails(proposed_decisions, PyDict(ctx))
    /\ pc' = "engine_outputs"
    /\ UNCHANGED <<volatility_state, confidence_score, vitals_summary,
                   posture_report, engine_inputs, earlier_reports,
                   engine_locals>>

\* 10. GENERATE OUTPUTS; generate_pm_summary divides cash by
\* portfolio_state.get("total_capital", 1).  The summary text and the
\* execution context are not modelled.
GenerateOutputs ==
    /\ pc = "engine_outputs"
    /\ IF Get(portfolio_state, "total_capital", 1) = 0
       THEN /\ raised' = "ZeroDivisionError"
            /\ pc' = "engine_raised"
            /\ UNCHANGED report
       ELSE /\ \E draw \in CounterfactualDraws(guardrail_results.allowed_actions) :
                   report' = [market_posture |-> posture_report,
                              superiority_analysis |->
                                  StructureSuperiorityOutput(
                                      guardrail_results.allowed_actions,
                                      guardrail_results.blocked_actions,
                                      posture_report, draw),
                              decisions |-> guardrail_results.allowed_actions,
                              blocked_by_safety |-> guardrail_results.blocked_actions,
                              concentration_risk |-> conc_warning,
                              reallocation_trigger |-> lock_in_report.reallocation_alert,
                              opportunity_scan |-> opportunity_report,
                              pressure_score |-> lock_in_report.pressure_score]
            /\ pc' = "engine_done"
            /\ UNCHANGED raised
    /\ UNCHANGED <<proposed_decisions, risk_context, guardrail_results,
                   volatility_state, confidence_score, vitals_summary,
                   posture_report, engine_inputs, earlier_reports, atr_res,
                   baseline, news_res, analyzed_positions, lock_in_report,
                   concentration_report, conc_warning, active_candidates,
                   opportunity_report, chain_actions, decisions>>

Next ==
    \/ PrepareMarketSignals
    \/ AnalyzeAndDeterminePosture
    \/ AnalyzePortfolio
    \/ DecisionSynthesis
    \/ ExplanationLayer
    \/ RiskGuardrails
    \/ GenerateOutputs

Spec == Init /\ [][Next]_vars

(***************************************************************************)
(* A caller that runs a second decision cycle on the arguments of the      *)
(* first, as the replay loop does with its portfolio and positions.        *)
(***************************************************************************)

\* The number of positions and candidates of a repeated call
MaxRepeatedInputs == 2

InitTwice ==
    /\ Init
    /\ Len(positions) + Len(candidates) <= MaxRepeatedInputs

\* The caller keeps the report and calls run_decision_engine again with
\* the same arguments
CallAgain ==
    /\ pc = "engine_done"
    /\ Len(earlier_reports) = 0
    /\ earlier_reports' = <<report>>
    /\ pc' = "engine_signals"
    /\ proposed_decisions' = None
    /\ risk_context' = None
    /\ guardrail_results' = None
    /\ volatility_state' = None
    /\ confidence_score' = None
    /\ vitals_summary' = None
    /\ posture_report' = None
    /\ atr_res' = None
    /\ baseline' = None
    /\ news_res' = None
    /\ analyzed_positions' = None
    /\ lock_in_report' = None
    /\ concentration_report' = None
    /\ conc_warning' = None
    /\ active_candidates' = None
    /\ opportunity_report' = None
    /\ chain_actions' = None
    /\ decisions' = None
    /\ report' = None
    /\ raised' = None
    /\ UNCHANGED engine_inputs

NextTwice ==
    \/ Next
    \/ CallAgain

SpecTwice == InitTwice /\ [][NextTwice]_vars

(***************************************************************************)
(* The vitals loop of run_decision_engine (section 2) on its own: every    *)
(* position of a grid of field values, and the lists of the engine's       *)
(* positions.                                                              *)
(***************************************************************************)

\* The longest list of engine positions given to the loop
MaxVitalsPositions == 2

\* Field values: prices in dollars, atr in tenths of a dollar, capital in
\* thousands of dollars.  A flat position held 50 days scores exactly 40.0,
\* one held -50 days exactly 60.0.
VitalsFieldInputs ==
    [entry_price : {-5, 0, 100},
     current_price : {0, 90, 99, 100, 101, 102, 110},
     atr : {0, 10, 25, 50},
     days_held : {-50, 0, 10, 21, 50, 300},
     capital_allocated : {0, 100, 650}]

\* Positions with every field, and positions without entry_price
VitalsPositionInputs ==
    {Put(f, "symbol", "GRID") : f \in VitalsFieldInputs}
        \cup {[symbol |-> "GRID", current_price |-> 110, atr |-> 25, days_held |-> 10],
              [symbol |-> "GRID"]}

InitVitals ==
    /\ pc = "vitals_loop"
    /\ \/ \E p \in VitalsPositionInputs : positions = <<p>>
       \/ positions \in SeqsUpTo(PositionInputs, MaxVitalsPositions)
    /\ analyzed_positions = None
    /\ vitals_summary = None
    /\ proposed_decisions = None
    /\ risk_context = None
    /\ guardrail_results = None
    /\ volatility_state = None
    /\ confidence_score = None
    /\ posture_report = None
    /\ portfolio_state = None
    /\ sector_heatmap = None
    /\ candidates = None
    /\ market_context = None
    /\ atr_res = None
    /\ baseline = None
    /\ news_res = None
    /\ lock_in_report = None
    /\ concentration_report = None
    /\ conc_warning = None
    /\ active_candidates = None
    /\ opportunity_report = None
    /\ chain_actions = None
    /\ decisions = None
    /\ report = None
    /\ raised = None
    /\ earlier_reports = <<>>

\* for pos in positions: compute_vitals, tally, copy and update
RunVitalsLoop ==
    /\ pc = "vitals_loop"
    /\ analyzed_positions' = AnalyzePositions(positions)
    /\ positions' = PositionsAfterVitalsLoop(positions)
    /\ vitals_summary' = VitalsCounts(analyzed_positions')
    /\ pc' = "vitals_done"
    /\ UNCHANGED <<proposed_decisions, risk_context, guardrail_results,
                   volatility_state, confidence_score, posture_report,
                   portfolio_state, sector_heatmap, candidates,
                   market_context, earlier_reports, atr_res, baseline,
                   news_res, lock_in_report, concentration_report,
                   conc_warning, active_candidates, opportunity_report,
                   chain_actions, decisions, report, raised>>

NextVitals == RunVitalsLoop

SpecVitals == InitVitals /\ [][NextVitals]_vars

(***************************************************************************)
(* capital_lock_in.detect_capital_lock_in on its own                       *)
(***************************************************************************)

\* The longest list of positions given to detect_capital_lock_in
MaxLockInPositions == 2

\* Analyzed positions: vitals 35, 49.99, 50 and 85, in ENERGY, in TECH, and
\* without a sector, holding 250000 or 260000 dollars
LockInPositionInputs ==
    {[symbol |-> "HELD", vitals_score |-> v, capital_allocated |-> c, sector |-> s] :
        v \in {3500, 4999, 5000, 8500}, c \in {250, 260}, s \in {"ENERGY", "TECH"}}
    \cup {[symbol |-> "HELD", vitals_score |-> v, capital_allocated |-> c] :
             v \in {3500, 4999, 5000, 8500}, c \in {250, 260}}

\* ENERGY cold, at 39 and at 40; TECH hot, at 69 and at 70
LockInHeatmapInputs ==
    {[s \in {"TECH", "ENERGY"} |-> IF s = "TECH" THEN 80 ELSE 30],
     [s \in {"TECH", "ENERGY"} |-> IF s = "TECH" THEN 69 ELSE 39],
     [s \in {"TECH", "ENERGY"} |-> IF s = "TECH" THEN 70 ELSE 40]}

LockInPortfolioInputs ==
    {[total_capital |-> 1000, cash |-> 0],
     [total_capital |-> 1000, cash |-> 150],
     [total_capital |-> 1000]}

InitLockIn ==
    /\ pc = "lock_in_call"
    /\ portfolio_state \in LockInPortfolioInputs
    /\ analyzed_positions \in SeqsUpTo(LockInPositionInputs, MaxLockInPositions)
    /\ sector_heatmap \in LockInHeatmapInputs
    /\ lock_in_report = None
    /\ positions = None
    /\ candidates = None
    /\ market_context = None
    /\ proposed_decisions = None
    /\ risk_context = None
    /\ guardrail_results = None
    /\ volatility_state = None
    /\ confidence_score = None
    /\ vitals_summary = None
    /\ posture_report = None
    /\ atr_res = None
    /\ baseline = None
    /\ news_res = None
    /\ concentration_report = None
    /\ conc_warning = None
    /\ active_candidates = None
    /\ opportunity_report = None
    /\ chain_actions = None
    /\ decisions = None
    /\ report = None
    /\ raised = None
    /\ earlier_reports = <<>>

CallDetectCapitalLockIn ==
    /\ pc = "lock_in_call"
    /\ lock_in_report' =
           DetectCapitalLockIn(portfolio_state, analyzed_positions, sector_heatmap)
    /\ pc' = "lock_in_done"
    /\ UNCHANGED <<proposed_decisions, risk_context, guardrail_results,
                   volatility_state, confidence_score, vitals_summary,
                   posture_report, engine_inputs, earlier_reports, atr_res,
                   baseline, news_res, analyzed_positions,
                   concentration_report, conc_warning, active_candidates,
                   opportunity_report, chain_actions, decisions, report,
                   raised>>

NextLockIn == CallDetectCapitalLockIn

SpecLockIn == InitLockIn /\ [][NextLockIn]_vars

(***************************************************************************)
(* analyze_portfolio_concentration on its own, called as the engine calls  *)
(* it: on a list of positions and the portfolio's total capital.           *)
(***************************************************************************)

MaxConcentrationPositions == 3

\* Positions of a portfolio of 10 million dollars: nothing, 30 %, 60 %,
\* 60.01 %, 70 % and 70.01 % of it in one of three sectors, a sector label
\* that needs normalising, and a position without a sector
LargePortfolioPositions ==
    {[symbol |-> "HELD", sector |-> s, capital_allocated |-> c] :
        s \in {"TECH", "ENERGY", "FINANCE"}, c \in {0, 3000, 6000, 6001, 7000, 7001}}
    \cup {[symbol |-> "HELD", sector |-> " Tech ", capital_allocated |-> 3000],
          [symbol |-> "HELD", capital_allocated |-> 3000]}

\* Positions of a portfolio of 30000 dollars: 8000, 10000 and 11000 dollars
\* (thirds of a ten-thousandth of it) and a negative amount
SmallPortfolioPositions ==
    {[symbol |-> "HELD", sector |-> s, capital_allocated |-> c] :
        s \in {"TECH", "ENERGY", "FINANCE"}, c \in {-5, 8, 10, 11}}

ConcentrationInputs ==
    ({[total_capital |-> 10000]}
        \X SeqsUpTo(LargePortfolioPositions, MaxConcentrationPositions))
    \cup ({[total_capital |-> 30], [total_capital |-> 0], [cash |-> 0]}
             \X SeqsUpTo(SmallPortfolioPositions, MaxConcentrationPositions))

InitConcentration ==
    /\ pc = "concentration_call"
    /\ \E input \in ConcentrationInputs :
           portfolio_state = input[1] /\ analyzed_positions = input[2]
    /\ concentration_report = None
    /\ conc_warning = None
    /\ positions = None
    /\ sector_heatmap = None
    /\ candidates = None
    /\ market_context = None
    /\ proposed_decisions = None
    /\ risk_context = None
    /\ guardrail_results = None
    /\ volatility_state = None
    /\ confidence_score = None
    /\ vitals_summary = None
    /\ posture_report = None
    /\ atr_res = None
    /\ baseline = None
    /\ news_res = None
    /\ lock_in_report = None
    /\ active_candidates = None
    /\ opportunity_report = None
    /\ chain_actions = None
    /\ decisions = None
    /\ report = None
    /\ raised = None
    /\ earlier_reports = <<>>

CallAnalyzePortfolioConcentration ==
    /\ pc = "concentration_call"
    /\ concentration_report' =
           AnalyzePortfolioConcentration(analyzed_positions, TotalCapital(portfolio_state))
    /\ conc_warning' = concentration_report'.warning
    /\ pc' = "concentration_done"
    /\ UNCHANGED <<proposed_decisions, risk_context, guardrail_results,
                   volatility_state, confidence_score, vitals_summary,
                   posture_report, engine_inputs, earlier_reports, atr_res,
                   baseline, news_res, analyzed_positions, lock_in_report,
                   active_candidates, opportunity_report, chain_actions,
                   decisions, report, raised>>

NextConcentration == CallAnalyzePortfolioConcentration

SpecConcentration == InitConcentration /\ [][NextConcentration]_vars

(***************************************************************************)
(* scan_for_opportunities on its own, on analyzed positions and candidates *)
(* with the default threshold.                                             *)
(***************************************************************************)

\* The longest list of positions, and of candidates, given to the scan
MaxOpportunityInputs == 2

\* Positions scoring 50 and 70, and one without a vitals_score
OpportunityPositionInputs ==
    {[symbol |-> "HELD", vitals_score |-> 5000],
     [symbol |-> "KEPT", vitals_score |-> 7000],
     [symbol |-> "BARE"]}

\* Candidates 15, 15.01, 30 and 30.01 above a score of 50, one below it,
\* and one without a projected_efficiency
OpportunityCandidateInputs ==
    {[symbol |-> "CAND", projected_efficiency |-> e] : e \in {4000, 6500, 6501, 8000, 8001}}
    \cup {[symbol |-> "NOEFF"]}

InitOpportunity ==
    /\ pc = "opportunity_call"
    /\ analyzed_positions \in SeqsUpTo(OpportunityPositionInputs, MaxOpportunityInputs)
    /\ active_candidates \in SeqsUpTo(OpportunityCandidateInputs, MaxOpportunityInputs)
    /\ opportunity_report = None
    /\ portfolio_state = None
    /\ positions = None
    /\ sector_heatmap = None
    /\ candidates = None
    /\ market_context = None
    /\ proposed_decisions = None
    /\ risk_context = None
    /\ guardrail_results = None
    /\ volatility_state = None
    /\ confidence_score = None
    /\ vitals_summary = None
    /\ posture_report = None
    /\ atr_res = None
    /\ baseline = None
    /\ news_res = None
    /\ lock_in_report = None
    /\ concentration_report = None
    /\ conc_warning = None
    /\ chain_actions = None
    /\ decisions = None
    /\ report = None
    /\ raised = None
    /\ earlier_reports = <<>>

CallScanForOpportunities ==
    /\ pc = "opportunity_call"
    /\ opportunity_report' = ScanForOpportunities(analyzed_positions, active_candidates)
    /\ pc' = "opportunity_done"
    /\ UNCHANGED <<proposed_decisions, risk_context, guardrail_results,
                   volatility_state, confidence_score, vitals_summary,
                   posture_report, engine_inputs, earlier_reports, atr_res,
                   baseline, news_res, analyzed_positions, lock_in_report,
                   concentration_report, conc_warning, active_candidates,
                   chain_actions, decisions, report, raised>>

NextOpportunity == CallScanForOpportunities

SpecOpportunity == InitOpportunity /\ [][NextOpportunity]_vars

(***************************************************************************)
(* enrich_decisions_with_explanations, which calls explain_decision for    *)
(* every decision: called by run_decision_engine, and called on its own on *)
(* decisions and signals of every kind.                                    *)
(***************************************************************************)

\* The longest list of decisions explained on its own
MaxExplainedDecisions == 1

\* Decisions with a reducing, an allocating and a neutral action, of both
\* types, with vitals in each of the four bands, with and without flags,
\* and decisions that carry nothing but a target and an action
ExplainDecisionInputs ==
    {[target |-> "HELD", type |-> t, action |-> a, score |-> v, sector |-> "TECH", flags |-> f] :
        t \in {"POSITION", "CANDIDATE"},
        a \in {"FREE_CAPITAL", "ALLOCATE_HIGH", "MAINTAIN"},
        v \in {3000, 5000, 6500, 7500},
        f \in {<<>>, <<"STAGNANT", "LOW_VOLATILITY", "HIGH_VOLATILITY">>}}
    \cup {[target |-> "BARE", action |-> a] : a \in {"FREE_CAPITAL", "ALLOCATE_HIGH", "MAINTAIN"}}

\* Lock-in reports naming HELD as dead capital or not, TECH as hot or not,
\* with and without reallocation pressure
ExplainLockInInputs ==
    {[dead_capital |-> 0, dead_positions |-> dp, hot_sectors |-> hs,
      pressure_score |-> [whole |-> 0, hundredths |-> 0], reallocation_alert |-> ra] :
        dp \in {<<>>, <<[symbol |-> "HELD", sector |-> "TECH", vitals_score |-> 3000,
                         capital_allocated |-> 0]>>},
        hs \in {{}, {"TECH"}},
        ra \in BOOLEAN}

\* No concentration and no opportunity; TECH breached with a HIGH
\* opportunity; TECH approaching the limit with a MEDIUM opportunity
ExplainRiskInputs ==
    {[conc |-> EvaluateConcentrationRisk(EmptyDict),
      opp |-> ScanForOpportunities(<<>>, <<>>)],
     [conc |-> EvaluateConcentrationRisk([s \in {"TECH"} |-> 8000]),
      opp |-> ScanForOpportunities(<<>>, <<[symbol |-> "CAND", projected_efficiency |-> 9000]>>)],
     [conc |-> EvaluateConcentrationRisk([s \in {"TECH"} |-> 6500]),
      opp |-> ScanForOpportunities(<<[symbol |-> "HELD", vitals_score |-> 6500]>>,
                                   <<[symbol |-> "CAND", projected_efficiency |-> 9000]>>)]}

InitExplainCall ==
    /\ pc = "explain_call"
    /\ decisions \in SeqsUpTo(ExplainDecisionInputs, MaxExplainedDecisions)
    /\ lock_in_report \in ExplainLockInInputs
    /\ \E risk \in ExplainRiskInputs :
          conc_warning = risk.conc /\ opportunity_report = risk.opp
    /\ posture_report = DetermineMarketPosture("STABLE", 50, EmptyDict)
    /\ portfolio_state = None
    /\ positions = None
    /\ sector_heatmap = None
    /\ candidates = None
    /\ market_context = None
    /\ proposed_decisions = None
    /\ risk_context = None
    /\ guardrail_results = None
    /\ volatility_state = None
    /\ confidence_score = None
    /\ vitals_summary = None
    /\ atr_res = None
    /\ baseline = None
    /\ news_res = None
    /\ analyzed_positions = None
    /\ concentration_report = None
    /\ active_candidates = None
    /\ chain_actions = None
    /\ report = None
    /\ raised = None
    /\ earlier_reports = <<>>

InitExplain == Init \/ InitExplainCall

\* enrich_decisions_with_explanations(decisions, portfolio_signals, risk_signals)
CallEnrichDecisions ==
    /\ pc = "explain_call"
    /\ proposed_decisions' =
           EnrichDecisionsWithExplanations(decisions, PortfolioSignals, RiskSignals)
    /\ decisions' = DecisionsAfterEnrichment(decisions, PortfolioSignals, RiskSignals)
    /\ pc' = "explain_done"
    /\ UNCHANGED <<risk_context, guardrail_results, volatility_state,
                   confidence_score, vitals_summary, posture_report,
                   engine_inputs, earlier_reports, atr_res, baseline,
                   news_res, analyzed_positions, lock_in_report,
                   concentration_report, conc_warning, active_candidates,
                   opportunity_report, chain_actions, report, raised>>

NextExplain ==
    \/ Next
    \/ CallEnrichDecisions

SpecExplain == InitExplain /\ [][NextExplain]_vars

(***************************************************************************)
(* The signal functions called on their own, one after the other as        *)
(* test_signal_integrity calls them, on arguments of every kind.           *)
(***************************************************************************)

\* The longest list of headlines given to score_tech_news
MaxHeadlines == 2

\* Candle lists: none, one short of period + 1, period + 1 and more, and
\* flat candles whose true range is 0
CandleInputs ==
    {<<>>, SubSeq(MockCandles, 1, AtrPeriod), SubSeq(MockCandles, 1, AtrPeriod + 1),
     MockCandles, [i \in 1..(AtrPeriod + 1) |-> [high |-> 99, low |-> 99, close |-> 99]]}

\* Headlines: mildly bad, five bad words, six good words
HeadlineInputs ==
    {{"crash", "warns"},
     {"slowdown", "risk", "slump", "downgrade", "weak"},
     {"growth", "demand", "beats", "rally", "soar", "surge"}}

\* Volatility states: the three documented ones and an unrecognized one
VolatilityStateInputs == {"EXPANDING", "STABLE", "CONTRACTING", "UNKNOWN_STATE"}

\* Baselines in ten-thousandths of a dollar: negative, zero, half of, equal
\* to and double the ATR of the mock candles
BaselineInputs == {-10000, 0, 10000, 20000, 40000}

InitSignals ==
    /\ pc = "signals_atr"
    /\ \E cs \in CandleInputs, hs \in SeqsUpTo(HeadlineInputs, MaxHeadlines) :
          market_context = PyDict([candles |-> cs, news |-> hs])
    /\ volatility_state \in VolatilityStateInputs
    /\ baseline \in BaselineInputs
    /\ atr_res = None
    /\ news_res = None
    /\ confidence_score = None
    /\ portfolio_state = None
    /\ positions = None
    /\ sector_heatmap = None
    /\ candidates = None
    /\ proposed_decisions = None
    /\ risk_context = None
    /\ guardrail_results = None
    /\ vitals_summary = None
    /\ posture_report = None
    /\ analyzed_positions = None
    /\ lock_in_report = None
    /\ concentration_report = None
    /\ conc_warning = None
    /\ active_candidates = None
    /\ opportunity_report = None
    /\ chain_actions = None
    /\ decisions = None
    /\ report = None
    /\ raised = None
    /\ earlier_reports = <<>>

\* compute_atr(candles)
TestComputeAtr ==
    /\ pc = "signals_atr"
    /\ atr_res' = ComputeAtr(market_context.dict.candles)
    /\ pc' = "signals_news"
    /\ UNCHANGED <<proposed_decisions, risk_context, guardrail_results,
                   volatility_state, confidence_score, vitals_summary,
                   posture_report, engine_inputs, earlier_reports, baseline,
                   news_res, analyzed_positions, lock_in_report,
                   concentration_report, conc_warning, active_candidates,
                   opportunity_report, chain_actions, decisions, report,
                   raised>>

\* score_tech_news(headlines)
TestScoreTechNews ==
    /\ pc = "signals_news"
    /\ news_res' = ScoreTechNews(market_context.dict.news)
    /\ pc' = "signals_confidence"
    /\ UNCHANGED <<proposed_decisions, risk_context, guardrail_results,
                   volatility_state, confidence_score, vitals_summary,
                   posture_report, engine_inputs, earlier_reports, atr_res,
                   baseline, analyzed_positions, lock_in_report,
                   concentration_report, conc_warning, active_candidates,
                   opportunity_report, chain_actions, decisions, report,
                   raised>>

\* compute_sector_confidence(volatility_state, news_score)
TestComputeSectorConfidence ==
    /\ pc = "signals_confidence"
    /\ confidence_score' =
           ComputeSectorConfidence(volatility_state, news_res.news_score).sector_confidence
    /\ pc' = "signals_classify"
    /\ UNCHANGED <<proposed_decisions, risk_context, guardrail_results,
                   volatility_state, vitals_summary, posture_report,
                   engine_inputs, earlier_reports, atr_res, baseline,
                   news_res, analyzed_positions, lock_in_report,
                   concentration_report, conc_warning, active_candidates,
                   opportunity_report, chain_actions, decisions, report,
                   raised>>

\* The current ATR given to the classifier: the computed one, 0 without one
CurrentAtr == IF Len(atr_res.atr) = 1 THEN atr_res.atr[1] ELSE 0

\* classify_volatility_state(current_atr, baseline_atr)
TestClassifyVolatilityState ==
    /\ pc = "signals_classify"
    /\ volatility_state' = ClassifyVolatilityState(CurrentAtr, baseline).volatility_state
    /\ pc' = "signals_done"
    /\ UNCHANGED <<proposed_decisions, risk_context, guardrail_results,
                   confidence_score, vitals_summary, posture_report,
                   engine_inputs, earlier_reports, atr_res, baseline,
                   news_res, analyzed_positions, lock_in_report,
                   concentration_report, conc_warning, active_candidates,
                   opportunity_report, chain_actions, decisions, report,
                   raised>>

NextSignals ==
    \/ TestComputeAtr
    \/ TestScoreTechNews
    \/ TestComputeSectorConfidence
    \/ TestClassifyVolatilityState

SpecSignals == InitSignals /\ [][NextSignals]_vars

(***************************************************************************)
(* run_decision_engine on positions and candidates that share a symbol     *)
(* and on sector labels that differ in letter case and surrounding blanks. *)
(***************************************************************************)

\* The most positions, and the most candidates, of such a call
MaxLabelledInputs == 2

\* A dead ENERGY position and a healthy TECH position under one symbol, and
\* two positions whose labels normalise to TECH and together exceed 70% of
\* the capital
LabelledPositionInputs ==
    {[symbol |-> "XOM", sector |-> "ENERGY", entry_price |-> 100, current_price |-> 90,
      atr |-> 50, days_held |-> 10, capital_allocated |-> 400],
     [symbol |-> "XOM", sector |-> "TECH", entry_price |-> 100, current_price |-> 110,
      atr |-> 25, days_held |-> 10, capital_allocated |-> 100],
     [symbol |-> "NVDA", sector |-> "tech", entry_price |-> 100, current_price |-> 110,
      atr |-> 25, days_held |-> 10, capital_allocated |-> 650],
     [symbol |-> "AMD", sector |-> " Tech ", entry_price |-> 100, current_price |-> 101,
      atr |-> 25, days_held |-> 10, capital_allocated |-> 100]}

\* Two candidates under one symbol in different sectors, and a candidate
\* whose label is TECH in lower case
LabelledCandidateInputs ==
    {[symbol |-> "AVGO", sector |-> "TECH", projected_efficiency |-> 9500],
     [symbol |-> "AVGO", sector |-> "BIOTECH", projected_efficiency |-> 8800],
     [symbol |-> "QCOM", sector |-> "tech", projected_efficiency |-> 9500]}

\* A heatmap keyed by the normalised labels and one that also has the
\* lower-case label
LabelledHeatmapInputs ==
    {[s \in {"TECH", "ENERGY"} |-> IF s = "ENERGY" THEN 30 ELSE 80],
     [s \in {"TECH", "tech", "ENERGY"} |-> IF s = "ENERGY" THEN 30 ELSE 80]}

InitLabels ==
    /\ pc = "engine_signals"
    /\ positions \in SeqsUpTo(LabelledPositionInputs, MaxLabelledInputs)
    /\ candidates \in SeqsUpTo(LabelledCandidateInputs, MaxLabelledInputs)
    /\ portfolio_state \in {[total_capital |-> 1000, cash |-> 150],
                            [total_capital |-> 1000, cash |-> 30]}
    /\ sector_heatmap \in LabelledHeatmapInputs
    /\ market_context = PyNone
    /\ proposed_decisions = None
    /\ risk_context = None
    /\ guardrail_results = None
    /\ volatility_state = None
    /\ confidence_score = None
    /\ vitals_summary = None
    /\ posture_report = None
    /\ atr_res = None
    /\ baseline = None
    /\ news_res = None
    /\ analyzed_positions = None
    /\ lock_in_report = None
    /\ concentration_report = None
    /\ conc_warning = None
    /\ active_candidates = None
    /\ opportunity_report = None
    /\ chain_actions = None
    /\ decisions = None
    /\ report = None
    /\ raised = None
    /\ earlier_reports = <<>>

SpecLabels == InitLabels /\ [][Next]_vars

(***************************************************************************)
(* Properties                                                              *)
(***************************************************************************)

\* A decision without its safety_reason
StripReason(d) == [x \in (DOMAIN d) \ {"safety_reason"} |-> d[x]]

\* ds is an order-preserving interleaving of the lists a and b
RECURSIVE Interleaves(_, _, _)
Interleaves(ds, a, b) ==
    IF Len(ds) = 0 THEN Len(a) = 0 /\ Len(b) = 0
    ELSE \/ Len(a) > 0 /\ Head(a) = Head(ds) /\ Interleaves(Tail(ds), Tail(a), b)
         \/ Len(b) > 0 /\ Head(b) = Head(ds) /\ Interleaves(Tail(ds), a, Tail(b))

GuardDone == pc = "guard_done"

\* C1: apply_risk_guardrails partitions a non-empty input list: the input is
\* an order-preserving interleaving of allowed_actions and of blocked_actions
\* without their safety_reason (so nothing is dropped, duplicated or changed),
\* every blocked decision carries a safety_reason, and no decision is in both
\* lists.
C1_StrictPartition ==
    (GuardDone /\ Len(proposed_decisions) > 0) =>
        LET a == guardrail_results.allowed_actions
            b == guardrail_results.blocked_actions
        IN  /\ Len(a) + Len(b) = Len(proposed_decisions)
            /\ Interleaves(proposed_decisions, a, [k \in 1..Len(b) |-> StripReason(b[k])])
            /\ \A k \in 1..Len(b) : "safety_reason" \in DOMAIN b[k]
            /\ \A i \in 1..Len(a) : \A k \in 1..Len(b) : a[i] # b[k]

\* C1 witness: a call with a valid context that allowed one decision and
\* blocked another.
C1_Witness ==
    /\ GuardDone
    /\ IsDict(risk_context)
    /\ Len(guardrail_results.allowed_actions) = 1
    /\ Len(guardrail_results.blocked_actions) = 1

\* risk_context is None, empty or not a dict
ContextUnusable(rc) ==
    \/ rc.py = "None"
    \/ rc.py # "dict"
    \/ rc.py = "dict" /\ rc.dict = EmptyDict

\* C2: apply_risk_guardrails fails closed: without a usable risk_context every
\* decision of a non-empty list is blocked with the missing-context reason and
\* nothing is allowed; an empty decision list gives two empty lists whatever
\* the context.
C2_FailClosed ==
    GuardDone =>
        LET a == guardrail_results.allowed_actions
            b == guardrail_results.blocked_actions
        IN  /\ (Len(proposed_decisions) > 0 /\ ContextUnusable(risk_context)) =>
                  /\ a = <<>>
                  /\ Len(b) = Len(proposed_decisions)
                  /\ \A k \in 1..Len(b) :
                        /\ StripReason(b[k]) = proposed_decisions[k]
                        /\ b[k].safety_reason = "Safety check failed: missing risk context"
            /\ Len(proposed_decisions) = 0 => (a = <<>> /\ b = <<>>)

\* C2 witness: two decisions and a None context, both blocked.
C2_Witness ==
    /\ GuardDone
    /\ risk_context = PyNone
    /\ Len(proposed_decisions) = 2
    /\ Len(guardrail_results.blocked_actions) = 2

\* The three rules as the claim states them, on the values the context gives
\* (or the documented defaults).
ClaimRule1(d, ctx) ==
    LET conc   == Get(ctx, "concentration", EmptyDict)
        action == Get(d, "action", "UNKNOWN")
    IN  /\ Get(d, "sector", "UNKNOWN") = Get(conc, "dominant_sector", "UNKNOWN")
        /\ \/ /\ Get(conc, "is_concentrated", FALSE)
              /\ action \in {"ALLOCATE", "ALLOCATE_HIGH", "ALLOCATE_AGGRESSIVE",
                              "SCALE_UP", "DOUBLE_DOWN", "ADD_POSITION"}
           \/ /\ Get(conc, "severity", "NONE") = "APPROACHING"
              /\ action \in {"ALLOCATE_HIGH", "ALLOCATE_AGGRESSIVE", "SCALE_UP"}

ClaimRule2(d, ctx) ==
    /\ Get(ctx, "cash_available", 0) < Get(ctx, "minimum_reserve", 50)
    /\ Get(d, "action", "UNKNOWN") \in
           {"ALLOCATE", "ALLOCATE_HIGH", "ALLOCATE_AGGRESSIVE", "ALLOCATE_CAPPED",
            "ALLOCATE_CAUTIOUS", "SCALE_UP", "ADD_POSITION", "DOUBLE_DOWN"}

ClaimRule3(d, ctx) ==
    /\ Get(ctx, "volatility_state", "STABLE") = "EXPANDING"
    /\ Get(d, "action", "UNKNOWN") \in {"ALLOCATE_AGGRESSIVE", "SCALE_UP", "DOUBLE_DOWN"}

ClaimReason(d, ctx) ==
    IF ClaimRule3(d, ctx) THEN "Aggressive action blocked during expanding volatility"
    ELSE IF ClaimRule2(d, ctx) THEN "Insufficient cash reserve"
    ELSE IF ClaimRule1(d, ctx) THEN "Sector concentration breach"
    ELSE None

\* The decisions of ds the claim's rules block, each with its reason, in order
RECURSIVE ClaimBlocked(_, _)
ClaimBlocked(ds, ctx) ==
    IF Len(ds) = 0 THEN <<>>
    ELSE IF ClaimReason(Head(ds), ctx) # None
    THEN <<Put(Head(ds), "safety_reason", ClaimReason(Head(ds), ctx))>>
             \o ClaimBlocked(Tail(ds), ctx)
    ELSE ClaimBlocked(Tail(ds), ctx)

\* The decisions of ds no rule of the claim blocks, in order
RECURSIVE ClaimAllowed(_, _)
ClaimAllowed(ds, ctx) ==
    IF Len(ds) = 0 THEN <<>>
    ELSE IF ClaimReason(Head(ds), ctx) = None
    THEN <<Head(ds)>> \o ClaimAllowed(Tail(ds), ctx)
    ELSE ClaimAllowed(Tail(ds), ctx)

\* C10: with a valid risk_context a decision is blocked exactly when one of
\* the three rules applies, its safety_reason is that of the last applicable
\* rule in the order 1, 2, 3, and every other decision is allowed.
C10_BlockRules ==
    (GuardDone /\ ~ContextUnusable(risk_context)) =>
        /\ guardrail_results.blocked_actions =
               ClaimBlocked(proposed_decisions, risk_context.dict)
        /\ guardrail_results.allowed_actions =
               ClaimAllowed(proposed_decisions, risk_context.dict)

\* C10 witness: a decision to which rules 1 and 2 both apply (concentrated
\* dominant sector, cash below the reserve) is blocked with the reason of
\* rule 2, and a REDUCE decision of the same call is allowed.
C10_Witness ==
    /\ GuardDone
    /\ ~ContextUnusable(risk_context)
    /\ \E k \in 1..Len(proposed_decisions) :
          /\ ClaimRule1(proposed_decisions[k], risk_context.dict)
          /\ ClaimRule2(proposed_decisions[k], risk_context.dict)
          /\ ~ClaimRule3(proposed_decisions[k], risk_context.dict)
    /\ \E k \in 1..Len(guardrail_results.blocked_actions) :
          guardrail_results.blocked_actions[k].safety_reason = "Insufficient cash reserve"
    /\ \E k \in 1..Len(guardrail_results.allowed_actions) :
          Get(guardrail_results.allowed_actions[k], "action", "UNKNOWN") = "REDUCE"

PostureDone == pc = "posture_done"

\* C9: determine_market_posture applies its rules in priority order:
\* unhealthy > healthy gives RISK_OFF / HIGH with one reason whatever the
\* volatility state and confidence; otherwise the volatility state and the
\* confidence thresholds 50, 70 and 65 decide; an empty portfolio is never
\* RISK_OFF.
C9_PosturePriority ==
    PostureDone =>
        LET h == Get(vitals_summary, "healthy", 0)
            u == Get(vitals_summary, "unhealthy", 0)
            p == posture_report.market_posture
            r == posture_report.risk_level
            c == confidence_score
            v == volatility_state
        IN  /\ u > h => (p = "RISK_OFF" /\ r = "HIGH" /\ Len(posture_report.reasons) = 1)
            /\ (u <= h /\ v = "EXPANDING") =>
                  (r = "HIGH" /\ p = (IF c < 50 THEN "DEFENSIVE" ELSE "NEUTRAL"))
            /\ (u <= h /\ v = "CONTRACTING") =>
                  (r = "LOW" /\ p = (IF c > 70 THEN "AGGRESSIVE" ELSE "NEUTRAL"))
            /\ (u <= h /\ v = "STABLE") =>
                  (r = "MEDIUM" /\ p = (IF c > 65 THEN "OPPORTUNITY" ELSE "NEUTRAL"))
            /\ (u <= h /\ v \notin {"EXPANDING", "CONTRACTING", "STABLE"}) => p = "NEUTRAL"
            /\ (u = 0 /\ h = 0) => p # "RISK_OFF"

\* C9 witness: an unhealthy portfolio under CONTRACTING volatility and
\* confidence 100 is RISK_OFF, not AGGRESSIVE.
C9_Witness ==
    /\ PostureDone
    /\ volatility_state = "CONTRACTING"
    /\ confidence_score = 100
    /\ Get(vitals_summary, "unhealthy", 0) = 2
    /\ Get(vitals_summary, "healthy", 0) = 1
    /\ posture_report.market_posture = "RISK_OFF"

(***************************************************************************)
(* Properties of run_decision_engine                                       *)
(***************************************************************************)

\* The decision synthesis has run
Synthesized ==
    pc \in {"engine_explain", "engine_guardrails", "engine_outputs", "engine_done",
            "engine_raised"}

\* The decisions list exists (the synthesis did not raise)
Decided == pc \in {"engine_explain", "engine_guardrails", "engine_outputs", "engine_done"}

\* The opportunity scanner has run
Scanned == pc = "engine_synthesis" \/ Synthesized

EngineDone == pc = "engine_done"

MarketPosture == posture_report.market_posture

InflowsCut == MarketPosture \in {"DEFENSIVE", "RISK_OFF"}

\* Position i is in the dead-capital list while reallocation pressure is on
DeadUnderPressure(i) ==
    /\ \E j \in 1..Len(lock_in_report.dead_positions) :
           lock_in_report.dead_positions[j].symbol = analyzed_positions[i].symbol
    /\ lock_in_report.reallocation_alert

\* Position i is in the sector the concentration guard reports as breached
InBreachedSector(i) ==
    /\ conc_warning.is_concentrated
    /\ Get(analyzed_positions[i], "sector", "UNKNOWN") = conc_warning.dominant_sector

\* The chain of C3, first match first
ClaimChainAction(i) ==
    LET vitals == analyzed_positions[i].vitals_score
    IN  IF DeadUnderPressure(i)
        THEN IF opportunity_report.better_opportunity_exists
                /\ opportunity_report.confidence = "HIGH"
             THEN "FREE_CAPITAL" ELSE "REDUCE_AGGRESSIVE"
        ELSE IF InBreachedSector(i)
        THEN IF vitals < 6000 THEN "TRIM_RISK" ELSE "HOLD_CAPPED"
        ELSE IF vitals < 4000 THEN "REDUCE"
        ELSE IF InSeq("STAGNANT", analyzed_positions[i].flags) THEN "REVIEW"
        ELSE IF vitals < 6000 THEN "HOLD"
        ELSE "MAINTAIN"

\* C3: before the posture override, each position's action is the first
\* matching rule of the chain dead capital under pressure, breached sector,
\* vitals < 40, STAGNANT, vitals < 60, MAINTAIN; a position that is dead
\* capital under pressure and in the breached sector gets the dead-capital
\* action, never TRIM_RISK or HOLD_CAPPED.
C3_ChainOrder ==
    Synthesized =>
        \A i \in 1..Len(positions) :
            /\ chain_actions[i] = ClaimChainAction(i)
            /\ (DeadUnderPressure(i) /\ InBreachedSector(i)) =>
                   chain_actions[i] \in {"FREE_CAPITAL", "REDUCE_AGGRESSIVE"}

\* A position that is dead capital under pressure and in the breached sector
\* has been given its chain action.
C3_Witness ==
    /\ Synthesized
    /\ \E i \in 1..Len(positions) :
           /\ DeadUnderPressure(i)
           /\ InBreachedSector(i)
           /\ chain_actions[i] = "REDUCE_AGGRESSIVE"

\* Every decision of the report, allowed or blocked
ReportDecisions ==
    {report.decisions[i] : i \in 1..Len(report.decisions)}
        \cup {report.blocked_by_safety[i] : i \in 1..Len(report.blocked_by_safety)}

\* C4: under RISK_OFF a position whose chain action is HOLD, REVIEW or
\* MAINTAIN ends with REDUCE_RISK, so the report has no position decision
\* HOLD, REVIEW or MAINTAIN; every other chain action is kept; under any
\* other posture no position gets REDUCE_RISK.
C4_RiskOffOverride ==
    EngineDone =>
        /\ \A i \in 1..Len(positions) :
               /\ decisions[i].type = "POSITION"
               /\ (MarketPosture = "RISK_OFF"
                      /\ chain_actions[i] \in {"HOLD", "REVIEW", "MAINTAIN"})
                  => decisions[i].action = "REDUCE_RISK"
               /\ chain_actions[i] \in {"FREE_CAPITAL", "REDUCE_AGGRESSIVE", "TRIM_RISK",
                                        "HOLD_CAPPED", "REDUCE"}
                  => decisions[i].action = chain_actions[i]
               /\ \E d \in ReportDecisions :
                      /\ d.type = "POSITION"
                      /\ d.target = decisions[i].target
                      /\ d.action = decisions[i].action
        /\ \A d \in ReportDecisions :
               d.type = "POSITION" =>
                   IF report.market_posture.market_posture = "RISK_OFF"
                   THEN d.action \notin {"HOLD", "REVIEW", "MAINTAIN"}
                   ELSE d.action # "REDUCE_RISK"

\* Under RISK_OFF one position was overridden and another kept its action.
C4_Witness ==
    /\ EngineDone
    /\ MarketPosture = "RISK_OFF"
    /\ \E i, j \in 1..Len(positions) :
           /\ chain_actions[i] = "REVIEW"
           /\ decisions[i].action = "REDUCE_RISK"
           /\ chain_actions[j] = "REDUCE"
           /\ decisions[j].action = "REDUCE"

\* C5: when the posture is DEFENSIVE or RISK_OFF the opportunity scanner is
\* run with an empty candidate list and every input candidate gets
\* BLOCK_POSTURE; when unhealthy positions outnumber healthy ones the
\* posture is RISK_OFF.
C5_InflowsBlocked ==
    /\ Scanned =>
           /\ vitals_summary["unhealthy"] > vitals_summary["healthy"]
                  => MarketPosture = "RISK_OFF"
           /\ InflowsCut =>
                  /\ active_candidates = <<>>
                  /\ opportunity_report = ScanForOpportunities(analyzed_positions, <<>>)
    /\ (Decided /\ InflowsCut) =>
           \A i \in 1..Len(candidates) :
               /\ decisions[Len(positions) + i].target = candidates[i].symbol
               /\ decisions[Len(positions) + i].action = "BLOCK_POSTURE"
    /\ (EngineDone /\ InflowsCut) =>
           /\ Len(report.decisions) + Len(report.blocked_by_safety)
                  = Len(positions) + Len(candidates)
           /\ \A d \in ReportDecisions : d.type = "CANDIDATE" => d.action = "BLOCK_POSTURE"

\* Two UNHEALTHY positions and no HEALTHY one: a candidate of a hot sector,
\* with cash to allocate, is reported BLOCK_POSTURE.
C5_Witness ==
    /\ EngineDone
    /\ vitals_summary["unhealthy"] = 2
    /\ vitals_summary["healthy"] = 0
    /\ MarketPosture = "RISK_OFF"
    /\ Get(portfolio_state, "cash", 0) > CashAllocateAbove
    /\ \E i \in 1..Len(candidates) :
           /\ candidates[i].sector \in lock_in_report.hot_sectors
           /\ \E d \in ReportDecisions :
                  d.target = candidates[i].symbol /\ d.action = "BLOCK_POSTURE"

\* The capital held in the positions whose sector is sec
RECURSIVE HeldInSector(_, _)
HeldInSector(sec, i) ==
    IF i > Len(positions) THEN 0
    ELSE (IF Get(positions[i], "sector", "UNKNOWN") = sec
          THEN Get(positions[i], "capital_allocated", 0) ELSE 0)
         + HeldInSector(sec, i + 1)

\* The held positions of sec sum to more than 70% of total_capital
SumsAboveSoftLimit(sec) ==
    10 * HeldInSector(sec, 1) > 7 * Get(portfolio_state, "total_capital", 0)

HeldSectors == {Get(positions[i], "sector", "UNKNOWN") : i \in 1..Len(positions)}

\* Position i is held in sec with vitals below 60
WeakIn(sec, i) ==
    /\ Get(analyzed_positions[i], "sector", "UNKNOWN") = sec
    /\ analyzed_positions[i].vitals_score < 6000

\* C6 as stated: whenever the held positions of a sector sum to more than
\* 70% of total_capital, every candidate of that sector gets BLOCK_RISK and,
\* if a held position of that sector has vitals < 60, at least one such
\* position gets TRIM_RISK.
C6_BreachEndToEnd ==
    EngineDone =>
        \A sec \in HeldSectors :
            SumsAboveSoftLimit(sec) =>
                /\ \A i \in 1..Len(candidates) :
                       candidates[i].sector = sec
                           => decisions[Len(positions) + i].action = "BLOCK_RISK"
                /\ (\E i \in 1..Len(positions) : WeakIn(sec, i))
                       => \E i \in 1..Len(positions) :
                              WeakIn(sec, i) /\ decisions[i].action = "TRIM_RISK"

\* C6: when the concentration guard reports a breach, the held positions of
\* the dominant sector sum to more than 70% of total_capital; unless the
\* posture is DEFENSIVE or RISK_OFF every candidate of that sector gets
\* BLOCK_RISK; and if a held position of that sector has vitals < 60 and is
\* not dead capital under reallocation pressure, at least one such position
\* gets TRIM_RISK.
C6_BreachUnlessOverridden ==
    (EngineDone /\ conc_warning.is_concentrated) =>
        LET sec == conc_warning.dominant_sector
        IN  /\ SumsAboveSoftLimit(sec)
            /\ ~InflowsCut =>
                   \A i \in 1..Len(candidates) :
                       candidates[i].sector = sec =>
                           /\ decisions[Len(positions) + i].action = "BLOCK_RISK"
                           /\ \E d \in ReportDecisions :
                                  /\ d.type = "CANDIDATE"
                                  /\ d.target = candidates[i].symbol
                                  /\ d.action = "BLOCK_RISK"
            /\ (\E i \in 1..Len(positions) : WeakIn(sec, i) /\ ~DeadUnderPressure(i))
                   => \E i \in 1..Len(positions) :
                          /\ WeakIn(sec, i)
                          /\ ~DeadUnderPressure(i)
                          /\ decisions[i].action = "TRIM_RISK"
                          /\ \E d \in ReportDecisions :
                                 /\ d.type = "POSITION"
                                 /\ d.target = decisions[i].target
                                 /\ d.action = "TRIM_RISK"

\* A breached sector with a candidate reported BLOCK_RISK and a weak held
\* position reported TRIM_RISK.
C6_Witness ==
    /\ EngineDone
    /\ conc_warning.is_concentrated
    /\ ~InflowsCut
    /\ \E i \in 1..Len(candidates) :
           /\ candidates[i].sector = conc_warning.dominant_sector
           /\ decisions[Len(positions) + i].action = "BLOCK_RISK"
    /\ \E i \in 1..Len(positions) :
           /\ WeakIn(conc_warning.dominant_sector, i)
           /\ decisions[i].action = "TRIM_RISK"

\* The market context is a dict that supplies key
Supplies(key) == Truthy(market_context) /\ key \in DOMAIN market_context.dict

\* C7 as stated: a supplied override_volatility, override_news_score or
\* override_confidence replaces the computed signal, for the posture and
\* for the guardrail risk context; EXPANDING with confidence 30 gives
\* DEFENSIVE and CONTRACTING with confidence 80 gives AGGRESSIVE unless the
\* portfolio is RISK_OFF.
C7_OverridesUsed ==
    /\ (pc # "engine_signals" /\ Supplies("override_volatility"))
           => volatility_state = market_context.dict["override_volatility"]
    /\ (pc # "engine_signals" /\ Supplies("override_news_score"))
           => news_res.news_score = market_context.dict["override_news_score"]
    /\ (pc # "engine_signals" /\ Supplies("override_confidence"))
           => confidence_score = market_context.dict["override_confidence"]
    /\ (Scanned /\ Supplies("override_volatility") /\ Supplies("override_confidence")
            /\ vitals_summary["unhealthy"] <= vitals_summary["healthy"])
           => /\ (market_context.dict["override_volatility"] = "EXPANDING"
                     /\ market_context.dict["override_confidence"] = 30)
                 => MarketPosture = "DEFENSIVE"
              /\ (market_context.dict["override_volatility"] = "CONTRACTING"
                     /\ market_context.dict["override_confidence"] = 80)
                 => MarketPosture = "AGGRESSIVE"
    /\ (EngineDone /\ Supplies("override_volatility"))
           => risk_context.dict["volatility_state"] = market_context.dict["override_volatility"]

\* C8 as stated: the call never ends in an exception.
C8_NeverRaises == pc # "engine_raised"

\* The decision synthesized for candidate i
CandidateDecision(i) == decisions[Len(positions) + i]

\* Candidate i passed the posture filter
PassedPostureFilter(i) == InSeq(candidates[i], active_candidates)

\* The sector of candidate i is the dominant sector at the given severity
InDominantSectorAt(i, severity) ==
    /\ conc_warning.severity = severity
    /\ candidates[i].sector = conc_warning.dominant_sector

\* The heat of the sector of candidate i is at least 70
InHotSector(i) ==
    /\ candidates[i].sector \in DOMAIN sector_heatmap
    /\ sector_heatmap[candidates[i].sector] >= 70

\* The rules of C11, first match first; cash in thousands of dollars
ClaimCandidateAction(i) ==
    IF InDominantSectorAt(i, "SOFT_BREACH") THEN "BLOCK_RISK"
    ELSE IF InHotSector(i)
    THEN IF lock_in_report.reallocation_alert
         THEN IF InDominantSectorAt(i, "APPROACHING")
              THEN "ALLOCATE_CAPPED" ELSE "ALLOCATE_HIGH"
         ELSE IF portfolio_state["cash"] > 100
         THEN IF InDominantSectorAt(i, "APPROACHING")
              THEN "ALLOCATE_CAUTIOUS" ELSE "ALLOCATE"
         ELSE "WATCHLIST"
    ELSE "IGNORE"

\* C11: a candidate that passed the posture filter is given the first
\* matching rule: breached dominant sector -> BLOCK_RISK; hot sector under
\* reallocation pressure -> ALLOCATE_CAPPED if its sector is the dominant
\* sector at APPROACHING, else ALLOCATE_HIGH; hot sector without pressure
\* and cash above 100000 -> ALLOCATE_CAUTIOUS if APPROACHING, else ALLOCATE;
\* hot sector without pressure and cash at most 100000 -> WATCHLIST;
\* otherwise IGNORE.
C11_CandidateRules ==
    Decided =>
        \A i \in 1..Len(candidates) :
            PassedPostureFilter(i) => CandidateDecision(i).action = ClaimCandidateAction(i)

\* Under reallocation pressure a candidate of the hot dominant sector at
\* APPROACHING is capped while a candidate of another hot sector is not.
C11_Witness ==
    /\ Decided
    /\ \E i \in 1..Len(candidates) :
           /\ PassedPostureFilter(i)
           /\ lock_in_report.reallocation_alert
           /\ InHotSector(i)
           /\ InDominantSectorAt(i, "APPROACHING")
           /\ CandidateDecision(i).action = "ALLOCATE_CAPPED"

\* The number of positions and candidates of the call
InputCount == Len(positions) + Len(candidates)

\* What the k-th decision is derived from: the input positions in input
\* order, then the input candidates in input order
DerivedFrom(k) ==
    IF k <= Len(positions)
    THEN [target |-> positions[k].symbol, type |-> "POSITION"]
    ELSE [target |-> candidates[k - Len(positions)].symbol, type |-> "CANDIDATE"]

\* The target and type of each decision of a list
TargetsAndTypes(ds) == [k \in 1..Len(ds) |-> [target |-> ds[k].target, type |-> ds[k].type]]

\* C12: exactly one decision per input position and per input candidate:
\* after synthesis, after enrichment and in the returned report the
\* decisions number len(positions) + len(candidates), the k-th is derived
\* from the k-th input (positions first, then candidates) with type POSITION
\* or CANDIDATE accordingly, and decisions and blocked_by_safety together
\* are an order-preserving split of that list.
C12_OneDecisionPerInput ==
    LET derived == [k \in 1..InputCount |-> DerivedFrom(k)]
    IN  /\ Decided => TargetsAndTypes(decisions) = derived
        /\ pc \in {"engine_guardrails", "engine_outputs", "engine_done"} =>
               TargetsAndTypes(proposed_decisions) = derived
        /\ EngineDone =>
               /\ Len(report.decisions) + Len(report.blocked_by_safety) = InputCount
               /\ Interleaves(derived, TargetsAndTypes(report.decisions),
                              TargetsAndTypes(report.blocked_by_safety))

\* A returned report that allows a position and a candidate and blocks two
\* candidates.
C12_Witness ==
    /\ EngineDone
    /\ Len(positions) = 1
    /\ Len(candidates) = 2
    /\ Len(report.decisions) = 1
    /\ Len(report.blocked_by_safety) = 2
    /\ report.decisions[1].type = "POSITION"
    /\ report.blocked_by_safety[1].target # report.blocked_by_safety[2].target

\* The second of two calls with the same arguments has returned
SecondCallDone == EngineDone /\ Len(earlier_reports) = 1

\* A superiority analysis without its counterfactual
WithoutCounterfactual(analysis) ==
    [k \in (DOMAIN analysis) \ {"counterfactual"} |-> analysis[k]]

\* C13: two calls with identical arguments return identical decisions,
\* blocked_by_safety, market_posture and pressure_score, and every other
\* modelled output is identical too except the counterfactual of
\* superiority_analysis.
C13_Deterministic ==
    SecondCallDone =>
        LET first == earlier_reports[1]
        IN  /\ report.decisions = first.decisions
            /\ report.blocked_by_safety = first.blocked_by_safety
            /\ report.market_posture = first.market_posture
            /\ report.pressure_score = first.pressure_score
            /\ \A k \in (DOMAIN report) \ {"superiority_analysis"} : report[k] = first[k]
            /\ WithoutCounterfactual(report.superiority_analysis)
                   = WithoutCounterfactual(first.superiority_analysis)

\* Two calls with the same arguments whose reports differ in the
\* counterfactual, each with a primary decision and a blocked candidate.
C13_Witness ==
    /\ SecondCallDone
    /\ report.superiority_analysis.counterfactual
           # earlier_reports[1].superiority_analysis.counterfactual
    /\ report.superiority_analysis.primary_decision # PyNone
    /\ Len(report.blocked_by_safety) > 0

\* The keys the vitals loop adds to an analyzed position
VitalsKeys == {"vitals_score", "health", "flags"}

\* The decisions as section 8 hands them to the explainer
GivenToExplainer ==
    [i \in 1..Len(decisions) |->
        AttachSectorAndFlags(decisions[i], analyzed_positions, candidates)]

VitalsDone == pc = "vitals_done"

\* The health label C15 gives a score in hundredths
ClaimHealth(score) ==
    IF score < 4000 THEN "UNHEALTHY" ELSE IF score < 6000 THEN "WEAK" ELSE "HEALTHY"

\* The number of analyzed positions with a health label
Tally(label) ==
    Cardinality({i \in 1..Len(analyzed_positions) : analyzed_positions[i].health = label})

\* C15: every position gets a vitals_score in [0, 100] and the health
\* label of that score (UNHEALTHY below 40, WEAK from 40 below 60, HEALTHY
\* from 60), and the tally for the posture counts every position once:
\* each count is the number of positions with that label and the three
\* counts add up to the number of positions.
C15_VitalsInRange ==
    VitalsDone =>
        /\ Len(analyzed_positions) = Len(positions)
        /\ \A i \in 1..Len(analyzed_positions) :
               /\ analyzed_positions[i].vitals_score >= 0
               /\ analyzed_positions[i].vitals_score <= 10000
               /\ analyzed_positions[i].health
                      = ClaimHealth(analyzed_positions[i].vitals_score)
        /\ vitals_summary["healthy"] = Tally("HEALTHY")
        /\ vitals_summary["weak"] = Tally("WEAK")
        /\ vitals_summary["unhealthy"] = Tally("UNHEALTHY")
        /\ vitals_summary["healthy"] + vitals_summary["weak"] + vitals_summary["unhealthy"]
               = Len(positions)

\* A position scoring exactly 40 has been labelled WEAK and tallied as weak.
C15_Witness ==
    /\ VitalsDone
    /\ Len(positions) = 1
    /\ analyzed_positions[1].vitals_score = 4000
    /\ analyzed_positions[1].health = "WEAK"
    /\ vitals_summary["weak"] = 1

\* The vitals loop has run
Analyzed == pc \notin {"engine_signals", "engine_positions"}

\* Position i has no positive entry price
InvalidEntryPrice(i) == Get(positions[i], "entry_price", 0) <= 0

ReducingActions == {"FREE_CAPITAL", "REDUCE_AGGRESSIVE", "TRIM_RISK", "REDUCE"}

\* C16: a position whose entry_price is missing or not positive is
\* analyzed without an exception as vitals_score 0, UNHEALTHY, flagged
\* DATA_ERROR; the engine tallies it as unhealthy and its action, in the
\* chain, after the posture override and in the returned report, is one of
\* FREE_CAPITAL, REDUCE_AGGRESSIVE, TRIM_RISK and REDUCE.
C16_DataErrorReduced ==
    /\ Analyzed =>
           /\ \A i \in 1..Len(positions) :
                  InvalidEntryPrice(i) =>
                      /\ analyzed_positions[i].vitals_score = 0
                      /\ analyzed_positions[i].health = "UNHEALTHY"
                      /\ InSeq("DATA_ERROR", analyzed_positions[i].flags)
           /\ vitals_summary["unhealthy"]
                  >= Cardinality({i \in 1..Len(positions) : InvalidEntryPrice(i)})
    /\ Synthesized =>
           \A i \in 1..Len(positions) :
               InvalidEntryPrice(i) => chain_actions[i] \in ReducingActions
    /\ Decided =>
           \A i \in 1..Len(positions) :
               InvalidEntryPrice(i) => decisions[i].action \in ReducingActions
    /\ EngineDone =>
           \A i \in 1..Len(positions) :
               InvalidEntryPrice(i) =>
                   /\ report.decisions[i].target = positions[i].symbol
                   /\ report.decisions[i].action \in ReducingActions

\* A returned report that frees the capital of a position whose entry price
\* is 0.
C16_Witness ==
    /\ EngineDone
    /\ \E i \in 1..Len(positions) :
           /\ "entry_price" \in DOMAIN positions[i]
           /\ positions[i]["entry_price"] = 0
           /\ analyzed_positions[i].flags = <<"DATA_ERROR">>
           /\ report.decisions[i].action = "FREE_CAPITAL"

LockInDone == pc = "lock_in_done"

\* The heat C17 gives the sector of a position: 50 when the sector is not
\* in the heatmap
ClaimHeat(pos) ==
    IF "sector" \in DOMAIN pos /\ pos.sector \in DOMAIN sector_heatmap
    THEN sector_heatmap[pos.sector] ELSE 50

\* The positions C17 counts as dead capital
ClaimDead(pos) == pos.vitals_score < 5000 /\ ClaimHeat(pos) < 40

ClaimDeadIndices == {i \in 1..Len(analyzed_positions) : ClaimDead(analyzed_positions[i])}

RECURSIVE SumAllocated(_)
SumAllocated(indices) ==
    IF indices = {} THEN 0
    ELSE LET i == CHOOSE i \in indices : TRUE
         IN  analyzed_positions[i].capital_allocated + SumAllocated(indices \ {i})

\* C17: the dead positions are exactly the positions with vitals_score
\* below 50 in a sector whose heat (50 when absent from the heatmap) is
\* below 40, in order; a position scoring 50 or more, or in a sector missing
\* from the heatmap, is not among them; dead_capital is the sum of their
\* capital_allocated; reallocation_alert holds exactly when pressure_score
\* exceeds 50.
C17_DeadCapital ==
    LockInDone =>
        LET counted == SelectSeq(analyzed_positions, ClaimDead)
            dead    == lock_in_report.dead_positions
        IN  /\ Len(dead) = Cardinality(ClaimDeadIndices)
            /\ Len(dead) = Len(counted)
            /\ \A k \in 1..Len(dead) :
                   /\ dead[k].vitals_score = counted[k].vitals_score
                   /\ dead[k].capital_allocated = counted[k].capital_allocated
                   /\ dead[k].sector = Get(counted[k], "sector", "UNKNOWN")
            /\ \A i \in 1..Len(analyzed_positions) :
                   (\/ analyzed_positions[i].vitals_score >= 5000
                    \/ "sector" \notin DOMAIN analyzed_positions[i]
                    \/ analyzed_positions[i].sector \notin DOMAIN sector_heatmap)
                       => i \notin ClaimDeadIndices
            /\ lock_in_report.dead_capital = SumAllocated(ClaimDeadIndices)
            /\ lock_in_report.reallocation_alert
                   <=> (100 * lock_in_report.pressure_score.whole
                            + lock_in_report.pressure_score.hundredths > 5000)

\* Two positions scoring below 50 in a sector of heat 39 are counted, one
\* scoring 49.99; their capital is half the total, the pressure score is
\* exactly 50 and the alert is off.
C17_Witness ==
    /\ LockInDone
    /\ Len(analyzed_positions) = 2
    /\ analyzed_positions[1].vitals_score = 4999
    /\ ClaimHeat(analyzed_positions[1]) = 39
    /\ Len(lock_in_report.dead_positions) = 2
    /\ lock_in_report.dead_capital = 500
    /\ lock_in_report.pressure_score = [whole |-> 50, hundredths |-> 0]
    /\ ~lock_in_report.reallocation_alert

(***************************************************************************)
(* Properties of concentration_guard                                       *)
(***************************************************************************)

ConcentrationDone == pc = "concentration_done"

\* The exposure map a finished call computed, and the sectors in it
ExposureMap == concentration_report.exposure_map

ExposedSectors == DOMAIN ExposureMap

\* The greatest exposure in the map, in ten-thousandths; 0 for an empty map
GreatestExposure ==
    IF ExposedSectors = {} THEN 0
    ELSE CHOOSE e \in {ExposureMap[s] : s \in ExposedSectors} :
             \A s \in ExposedSectors : ExposureMap[s] <= e

\* C18: evaluate_concentration_risk classifies by the greatest sector
\* exposure with strict limits: above 0.70 it reports SOFT_BREACH and
\* is_concentrated; above 0.60 and up to 0.70, APPROACHING and not
\* concentrated; up to 0.60, or for an empty map, OK and not concentrated.
\* So is_concentrated holds exactly when the severity is SOFT_BREACH.
C18_StrictThresholds ==
    ConcentrationDone =>
        /\ conc_warning.exposure = GreatestExposure
        /\ GreatestExposure > 7000 =>
               conc_warning.severity = "SOFT_BREACH" /\ conc_warning.is_concentrated
        /\ GreatestExposure > 6000 /\ GreatestExposure <= 7000 =>
               conc_warning.severity = "APPROACHING" /\ ~conc_warning.is_concentrated
        /\ GreatestExposure <= 6000 =>
               conc_warning.severity = "OK" /\ ~conc_warning.is_concentrated
        /\ conc_warning.is_concentrated <=> conc_warning.severity = "SOFT_BREACH"

\* An exposure of exactly 0.70 was classified: APPROACHING, not concentrated
C18_Witness ==
    /\ ConcentrationDone
    /\ GreatestExposure = 7000
    /\ conc_warning.severity = "APPROACHING"
    /\ ~conc_warning.is_concentrated

\* The total capital the call was given, as <<n, d>>: n / d thousands
GivenTotalCapital == TotalCapital(portfolio_state)

\* The indices of the positions that hold a positive amount
PositiveIndices ==
    {i \in 1..Len(analyzed_positions) :
        "capital_allocated" \in DOMAIN analyzed_positions[i]
        /\ analyzed_positions[i]["capital_allocated"] > 0}

RECURSIVE SumCapitalOf(_)
SumCapitalOf(indices) ==
    IF indices = {} THEN 0
    ELSE LET i == CHOOSE j \in indices : TRUE
         IN  analyzed_positions[i]["capital_allocated"] + SumCapitalOf(indices \ {i})

\* The sector a position counts for: its label, stripped and upper-cased,
\* UNKNOWN without one
ClaimSector(i) ==
    IF "sector" \notin DOMAIN analyzed_positions[i] THEN "UNKNOWN"
    ELSE IF analyzed_positions[i]["sector"] = " Tech " THEN "TECH"
    ELSE analyzed_positions[i]["sector"]

\* The positive capital held in a sector, in thousands
PositiveCapitalIn(sector) == SumCapitalOf({i \in PositiveIndices : ClaimSector(i) = sector})

RECURSIVE SumExposureOf(_)
SumExposureOf(sectors) ==
    IF sectors = {} THEN 0
    ELSE LET s == CHOOSE t \in sectors : TRUE
         IN  ExposureMap[s] + SumExposureOf(sectors \ {s})

\* The returned fractions added up, in ten-thousandths
SumOfExposures == SumExposureOf(ExposedSectors)

\* The positive amounts add up to no more than a positive total capital
WithinTotalCapital ==
    /\ GivenTotalCapital[1] > 0
    /\ GivenTotalCapital[2] * SumCapitalOf(PositiveIndices) <= GivenTotalCapital[1]

\* Only positions with a positive amount count: the map holds exactly their
\* sectors
OnlyPositiveCapitalCounts == ExposedSectors = {ClaimSector(i) : i \in PositiveIndices}

\* C19 as stated: when the positive capital_allocated values sum to at most
\* a positive total_capital, the returned fractions, each rounded to 4
\* decimals, sum to at most 1.0, and positions with zero or negative
\* capital contribute nothing.
C19_SumAtMostOne ==
    ConcentrationDone /\ WithinTotalCapital =>
        SumOfExposures <= 10000 /\ OnlyPositiveCapitalCounts

\* C19 (amended): under the same condition every returned fraction is the
\* sector's positive capital over total_capital to within 0.00005, so the
\* fractions sum to at most 1.0 plus 0.00005 per sector; positions with
\* zero or negative capital contribute nothing.
C19_SumWithinRounding ==
    ConcentrationDone /\ WithinTotalCapital =>
        /\ OnlyPositiveCapitalCounts
        /\ \A s \in ExposedSectors :
               LET exact == 10000 * GivenTotalCapital[2] * PositiveCapitalIn(s)
                   given == ExposureMap[s] * GivenTotalCapital[1]
               IN  2 * (exact - given) <= GivenTotalCapital[1]
                   /\ 2 * (given - exact) <= GivenTotalCapital[1]
        /\ 2 * (SumOfExposures - 10000) <= Cardinality(ExposedSectors)

\* 11000, 11000 and 8000 dollars in three sectors of a portfolio of 30000:
\* 0.3667 + 0.3667 + 0.2667
C19_Witness ==
    /\ ConcentrationDone
    /\ WithinTotalCapital
    /\ Cardinality(ExposedSectors) = 3
    /\ SumOfExposures = 10001

\* The sectors that share the greatest exposure
TiedSectors == {s \in ExposedSectors : ExposureMap[s] = GreatestExposure}

\* The same positions with those at i and i + 1 exchanged
Exchanged(i) ==
    [j \in 1..Len(analyzed_positions) |->
        IF j = i THEN analyzed_positions[i + 1]
        ELSE IF j = i + 1 THEN analyzed_positions[i]
        ELSE analyzed_positions[j]]

\* C20: when sectors tie for the greatest exposure the dominant sector is
\* chosen among them by name, in the order of the names as strings (the
\* greatest name wins), so it depends only on the exposures and the names:
\* exchanging any two neighbouring positions, and so supplying the
\* positions in any other order, gives the same answer.
C20_TieByName ==
    ConcentrationDone /\ ExposedSectors # {} =>
        /\ conc_warning.dominant_sector \in TiedSectors
        /\ \A s \in TiedSectors : SectorRank(s) <= SectorRank(conc_warning.dominant_sector)
        /\ \A i \in 1..(Len(analyzed_positions) - 1) :
               AnalyzePortfolioConcentration(Exchanged(i), GivenTotalCapital).warning
                   = conc_warning

\* ENERGY and FINANCE tie at the top, FINANCE supplied first: FINANCE
C20_Witness ==
    /\ ConcentrationDone
    /\ TiedSectors = {"ENERGY", "FINANCE"}
    /\ analyzed_positions[1]["sector"] = "FINANCE"
    /\ analyzed_positions[Len(analyzed_positions)]["sector"] = "ENERGY"
    /\ conc_warning.dominant_sector = "FINANCE"

(***************************************************************************)
(* Properties of scan_for_opportunities                                    *)
(***************************************************************************)

OpportunityDone == pc = "opportunity_done"

\* The least vitals_score among the positions and the greatest
\* projected_efficiency among the candidates, a missing value counting 0
LeastVitals ==
    CHOOSE v \in {Get(analyzed_positions[i], "vitals_score", 0) : i \in DOMAIN analyzed_positions} :
        \A i \in DOMAIN analyzed_positions : v <= Get(analyzed_positions[i], "vitals_score", 0)

GreatestEfficiency ==
    CHOOSE e \in {Get(active_candidates[i], "projected_efficiency", 0) : i \in DOMAIN active_candidates} :
        \A i \in DOMAIN active_candidates : e >= Get(active_candidates[i], "projected_efficiency", 0)

ClaimGap == GreatestEfficiency - LeastVitals

\* C21: with positions and candidates an opportunity exists exactly when
\* the greatest projected_efficiency exceeds the least vitals_score by more
\* than 15, with confidence HIGH when by more than 30 and MEDIUM otherwise,
\* and LOW when there is none; with no positions but candidates there is an
\* opportunity with confidence HIGH; with no candidates there is none.
C21_OpportunityGap ==
    OpportunityDone =>
        /\ Len(analyzed_positions) > 0 /\ Len(active_candidates) > 0 =>
               /\ opportunity_report.better_opportunity_exists <=> ClaimGap > 1500
               /\ opportunity_report.confidence =
                      IF ClaimGap > 3000 THEN "HIGH"
                      ELSE IF ClaimGap > 1500 THEN "MEDIUM" ELSE "LOW"
        /\ Len(analyzed_positions) = 0 /\ Len(active_candidates) > 0 =>
               /\ opportunity_report.better_opportunity_exists
               /\ opportunity_report.confidence = "HIGH"
        /\ Len(active_candidates) = 0 => ~opportunity_report.better_opportunity_exists

\* A gap of exactly 30 between a position and the best of two candidates:
\* an opportunity of MEDIUM confidence
C21_Witness ==
    /\ OpportunityDone
    /\ Len(analyzed_positions) > 0
    /\ Len(active_candidates) = 2
    /\ ClaimGap = 3000
    /\ opportunity_report.better_opportunity_exists
    /\ opportunity_report.confidence = "MEDIUM"

(***************************************************************************)
(* Properties of decision_explainer                                        *)
(***************************************************************************)

ExplainDone == pc = "explain_done"

\* The reasons that tell the vitals band: the first thing appended
VitalsReasons ==
    {"Position vitals strong", "Position vitals acceptable", "Position vitals weak",
     "Position vitals critically low"}

\* reasons has at least two entries, none twice, the vitals band first and
\* the dead-capital reason before the reallocation reason
AtLeastTwoDistinct(reasons) ==
    /\ Len(reasons) >= 2
    /\ \A i \in 1..Len(reasons) : \A j \in 1..Len(reasons) :
           reasons[i] = reasons[j] => i = j
    /\ reasons[1] \in VitalsReasons
    /\ \A i \in 1..Len(reasons) : \A j \in 1..Len(reasons) :
           /\ reasons[i] = "Identified as dead capital in cold sector"
           /\ reasons[j] = "Portfolio requires capital reallocation"
           => i < j

\* C22: explain_decision returns, for every action, position or candidate
\* data and combination of signals, at least 2 reasons, no string twice, in
\* the order in which they were first appended; so every decision in a
\* report of run_decision_engine, allowed or blocked, carries at least 2
\* distinct reasons.
C22_TwoDistinctReasons ==
    /\ ExplainDone =>
           \A i \in 1..Len(proposed_decisions) :
               AtLeastTwoDistinct(proposed_decisions[i].reasons)
    /\ EngineDone =>
           /\ \A i \in 1..Len(report.decisions) :
                  AtLeastTwoDistinct(report.decisions[i].reasons)
           /\ \A i \in 1..Len(report.blocked_by_safety) :
                  AtLeastTwoDistinct(report.blocked_by_safety[i].reasons)

\* A decision with nothing but target and action was explained with no
\* signal on: the vitals band and the fallback reason
C22_Witness ==
    /\ ExplainDone
    /\ Len(proposed_decisions) = 1
    /\ DOMAIN decisions[1] = {"target", "action"}
    /\ ~lock_in_report.reallocation_alert
    /\ proposed_decisions[1].reasons =
           <<"Position vitals weak", "Action based on current position state">>

(***************************************************************************)
(* Properties of the signal functions                                      *)
(***************************************************************************)

AtrComputed == pc \in {"signals_news", "signals_confidence", "signals_classify", "signals_done"}

NewsScored == pc \in {"signals_confidence", "signals_classify", "signals_done"}

\* The confidence has been computed from the volatility state still held
ConfidenceComputed == pc = "signals_classify"

SignalsDone == pc = "signals_done"

\* C23: the signal functions return their neutral defaults: compute_atr
\* gives atr None for no candles and for fewer than period + 1 = 15;
\* classify_volatility_state gives STABLE whenever the baseline is <= 0,
\* whatever the current value; score_tech_news([]) gives score 50 and count
\* 0; compute_sector_confidence with a state it does not know subtracts 10
\* and keeps the result within [0, 100].
C23_NeutralDefaults ==
    /\ AtrComputed /\ Len(market_context.dict.candles) < 15 => atr_res.atr = <<>>
    /\ NewsScored /\ Len(market_context.dict.news) = 0 =>
           news_res.news_score = 50 /\ news_res.headline_count = 0
    /\ ConfidenceComputed /\ volatility_state \notin {"EXPANDING", "STABLE", "CONTRACTING"} =>
           /\ confidence_score >= 0
           /\ confidence_score <= 100
           /\ confidence_score =
                  IF news_res.news_score < 10 THEN 0 ELSE news_res.news_score - 10
    /\ SignalsDone /\ baseline <= 0 => volatility_state = "STABLE"

\* Fourteen candles gave no ATR, no headlines gave 50, the unknown state
\* gave 40, and a current ATR of 0 against a baseline of 0 gave STABLE
C23_Witness ==
    /\ SignalsDone
    /\ Len(market_context.dict.candles) = 14
    /\ atr_res.atr = <<>>
    /\ news_res = [news_score |-> 50, headline_count |-> 0]
    /\ confidence_score = 40
    /\ baseline = 0
    /\ volatility_state = "STABLE"

\* The market signals have been prepared
SignalsPrepared ==
    pc \in {"engine_positions", "engine_portfolio", "engine_synthesis", "engine_explain",
            "engine_guardrails", "engine_outputs", "engine_done"}

\* Candles were supplied and their ATR is a number other than 0
AtrTruthy ==
    /\ Truthy(market_context)
    /\ Len(Get(market_context.dict, "candles", <<>>)) > 0
    /\ Len(atr_res.atr) = 1
    /\ atr_res.atr[1] # 0

\* The posture has been determined
PostureDetermined == SignalsPrepared /\ pc # "engine_positions"

\* Some decision was stopped by the rule on expanding volatility
BlockedForVolatility ==
    \E i \in 1..Len(report.blocked_by_safety) :
        report.blocked_by_safety[i].safety_reason = ReasonVolatility

DistinctSymbols(records) ==
    \A i, j \in 1..Len(records) : records[i].symbol = records[j].symbol => i = j

\* The cash the guardrails are told of, in thousands of dollars
CashAvailable == Get(portfolio_state, "cash", 0)

\* C25: when the position symbols are pairwise distinct and the candidate
\* symbols are pairwise distinct, the only guardrail block the engine can
\* reach is the cash reserve rule: every entry of blocked_by_safety is a
\* CANDIDATE decision with action ALLOCATE_HIGH or ALLOCATE_CAPPED and
\* safety_reason 'Insufficient cash reserve', and the portfolio cash is
\* below 50000; no POSITION decision is blocked, no ALLOCATE or
\* ALLOCATE_CAUTIOUS is blocked, and the concentration rule never fires.
C25_OnlyCashBlocks ==
    (EngineDone /\ DistinctSymbols(positions) /\ DistinctSymbols(candidates)) =>
        \A i \in 1..Len(report.blocked_by_safety) :
            LET blocked == report.blocked_by_safety[i]
            IN  /\ blocked.type = "CANDIDATE"
                /\ blocked.action \in {"ALLOCATE_HIGH", "ALLOCATE_CAPPED"}
                /\ blocked.safety_reason = ReasonCash
                /\ CashAvailable < 50

\* With cash of 30000 an ALLOCATE_HIGH and an ALLOCATE_CAPPED candidate were
\* blocked while the dominant sector was near its limit
C25_Witness ==
    /\ EngineDone
    /\ DistinctSymbols(positions)
    /\ DistinctSymbols(candidates)
    /\ Len(positions) > 0
    /\ conc_warning.severity = "APPROACHING"
    /\ \E i, j \in 1..Len(report.blocked_by_safety) :
           /\ report.blocked_by_safety[i].action = "ALLOCATE_HIGH"
           /\ report.blocked_by_safety[j].action = "ALLOCATE_CAPPED"

AllocatingActions ==
    {"ALLOCATE", "ALLOCATE_HIGH", "ALLOCATE_CAPPED", "ALLOCATE_CAUTIOUS", "ALLOCATE_AGGRESSIVE"}

\* C26: while inflows are cut off (posture RISK_OFF or DEFENSIVE) the
\* opportunity scan is given no candidates and reports no opportunity, every
\* dead-capital position under reallocation pressure gets REDUCE_AGGRESSIVE,
\* and no decision, allowed or blocked, has action FREE_CAPITAL or any
\* ALLOCATE action.
C26_NoFreeCapitalWhenCut ==
    /\ (Scanned /\ pc # "engine_raised" /\ InflowsCut) =>
           /\ active_candidates = <<>>
           /\ ~opportunity_report.better_opportunity_exists
    /\ (Decided /\ InflowsCut) =>
           /\ \A i \in 1..Len(decisions) :
                  decisions[i].action \notin AllocatingActions \cup {"FREE_CAPITAL"}
           /\ \A i \in 1..Len(analyzed_positions) :
                  DeadUnderPressure(i) => decisions[i].action = "REDUCE_AGGRESSIVE"
    /\ (EngineDone /\ InflowsCut) =>
           \A i \in 1..Len(report.decisions \o report.blocked_by_safety) :
               (report.decisions \o report.blocked_by_safety)[i].action
                   \notin AllocatingActions \cup {"FREE_CAPITAL"}

\* A RISK_OFF call with candidates of a hot sector supplied returned a
\* REDUCE_AGGRESSIVE for a dead position under pressure
C26_Witness ==
    /\ EngineDone
    /\ MarketPosture = "RISK_OFF"
    /\ Len(candidates) > 0
    /\ \E i \in 1..Len(candidates) : candidates[i].sector \in DOMAIN sector_heatmap
                                       /\ sector_heatmap[candidates[i].sector] >= 70
    /\ \E i \in 1..Len(analyzed_positions) :
           /\ DeadUnderPressure(i)
           /\ \E k \in 1..Len(report.decisions) :
                  /\ report.decisions[k].target = analyzed_positions[i].symbol
                  /\ report.decisions[k].action = "REDUCE_AGGRESSIVE"

\* Position i is dead capital by its own numbers: vitals below 50 and the
\* heat of its own sector below 40 (50 for a sector not in the heatmap)
OwnDeadCapital(i) ==
    /\ analyzed_positions[i].vitals_score < 5000
    /\ Get(sector_heatmap, Get(analyzed_positions[i], "sector", "UNKNOWN"), 50) < 40

\* C27 as stated: a position receives FREE_CAPITAL or REDUCE_AGGRESSIVE only
\* if it is itself dead capital, and a HEALTHY position (vitals >= 60) never
\* receives FREE_CAPITAL, REDUCE_AGGRESSIVE, REDUCE, TRIM_RISK or HOLD, for
\* every list of positions, including lists in which two positions carry
\* the same symbol.
C27_OnlyOwnDeadCapital ==
    Decided =>
        \A i \in 1..Len(analyzed_positions) :
            /\ decisions[i].action \in {"FREE_CAPITAL", "REDUCE_AGGRESSIVE"}
                   => OwnDeadCapital(i)
            /\ analyzed_positions[i].vitals_score >= 6000
                   => decisions[i].action \notin
                          {"FREE_CAPITAL", "REDUCE_AGGRESSIVE", "REDUCE", "TRIM_RISK", "HOLD"}

\* Position i was counted into the exposure of the dominant sector
CountedIntoDominant(i) ==
    /\ Get(analyzed_positions[i], "capital_allocated", 0) > 0
    /\ ExposureSector(analyzed_positions[i]) = conc_warning.dominant_sector

\* C28 as stated: the sector label is treated consistently across stages,
\* whatever its letter case or surrounding blanks: under SOFT_BREACH no
\* position whose capital was counted into the dominant sector gets HOLD or
\* MAINTAIN, and no candidate whose normalised sector is the dominant
\* sector gets an ALLOCATE action from the candidate rules or past the
\* guardrails.
C28_SectorLabelConsistent ==
    /\ (Decided /\ conc_warning.severity = "SOFT_BREACH") =>
           /\ \A i \in 1..Len(analyzed_positions) :
                  CountedIntoDominant(i) => decisions[i].action \notin {"HOLD", "MAINTAIN"}
           /\ \A i \in 1..Len(candidates) :
                  ExposureSector(candidates[i]) = conc_warning.dominant_sector
                      => CandidateDecision(i).action \notin AllocatingActions
    /\ (EngineDone /\ conc_warning.severity = "SOFT_BREACH") =>
           \A k \in 1..Len(report.decisions) :
               (/\ report.decisions[k].type = "CANDIDATE"
                /\ ExposureSector(report.decisions[k]) = conc_warning.dominant_sector)
                   => report.decisions[k].action \notin AllocatingActions

\* The decisions carry their labels and have not yet been filtered
Labelled == pc = "engine_guardrails"

\* C29 as stated: every decision is labelled with the data of the input
\* record it was derived from: the sector, and for a position the flags,
\* attached to the k-th decision before explanation and guardrail filtering
\* are those of the k-th position or candidate, also when two positions or
\* two candidates share a symbol.
C29_LabelOfOwnRecord ==
    Labelled =>
        /\ \A i \in 1..Len(analyzed_positions) :
               /\ proposed_decisions[i].sector = Get(analyzed_positions[i], "sector", "UNKNOWN")
               /\ proposed_decisions[i].flags = Get(analyzed_positions[i], "flags", <<>>)
        /\ \A i \in 1..Len(candidates) :
               proposed_decisions[Len(analyzed_positions) + i].sector
                   = Get(candidates[i], "sector", "UNKNOWN")

\* The actions a primary decision can have
PrimaryActions ==
    {"FREE_CAPITAL", "ALLOCATE_HIGH", "ALLOCATE", "TRIM_RISK", "REDUCE", "HOLD", "MAINTAIN"}

\* (priority, score) of a is at most that of b
RanksAtMost(a, b) ==
    \/ ActionPriority(a.action) < ActionPriority(b.action)
    \/ ActionPriority(a.action) = ActionPriority(b.action) /\ a.score <= b.score

Primary == report.superiority_analysis.primary_decision

====
